---- MODULE Spec2Model ----
(***************************************************************************)
(* A model of lib/color_extractor.py: extract_colors_from_url and its      *)
(* helpers _fetch_all_css, _parse_colors, _add_color, _hex_to_rgb,         *)
(* _brightness and _categorize_colors.                                     *)
(*                                                                         *)
(* Strings the code inspects character by character (hex literals, hex     *)
(* keys) are sequences of one-character strings.  A CSS text is the        *)
(* sequence of its top-level items (qualified rules and comments); a rule  *)
(* holds declarations, a declaration a lowercasable name and its value     *)
(* tokens.  The token alphabet is: hash tokens, idents, rgb() with integer *)
(* channels, and other functions (whose arguments the structured pass      *)
(* never looks into).  Percentage and hsl() syntaxes are outside it.       *)
(*                                                                         *)
(* SpecAggregator runs _add_color alone on two event streams, and          *)
(* SpecSettings is the edit tab of pages/02_site_settings.py (extract and  *)
(* apply buttons) with the site selection of app.py and the store of       *)
(* lib/config_manager.py.                                                  *)
(***************************************************************************)
EXTENDS Integers, Sequences, FiniteSets, TLC

VARIABLES
    pc,           \* position of the call in extract_colors_from_url
    top_n,        \* the top_n argument of the current call
    page,         \* the parsed primary page (soup), once fetched
    page_status,  \* outcome of the primary fetch: "none", "ok", "failed"
    link_i,       \* index of the next <link rel=stylesheet> to handle
    sheet_log,    \* per handled link: its outcome ("ok", "failed", "nohref") and text
    css_texts,    \* _fetch_all_css: the list being collected / returned
    text_i,       \* index of the next CSS text of the running pass
    color_data,   \* _parse_colors: the AggregateMap, in insertion order
    raised_log,   \* per CSS text: did its structured pass raise
    buckets,      \* _categorize_colors: bg_colors, text_colors, accent_colors
    suggested,    \* _categorize_colors: its return value
    result,       \* the PaletteResult returned, or NoResult
    error,        \* the exception the call ended with, or "none"
    calls,        \* number of calls made so far
    feeds,        \* two runs of the Aggregator fed event by event: map and events fed
    session_state,  \* pages/02_site_settings.py: st.session_state and the last button
    saved_configs   \* ConfigManager: the configuration record stored for each site

vars == <<pc, top_n, page, page_status, link_i, sheet_log, css_texts, text_i,
          color_data, raised_log, buckets, suggested, result, error, calls, feeds,
          session_state, saved_configs>>

----------------------------------------------------------------------------
(* Bounds of the model *)

\* a page holds at most this many CSS sources (style tags + links + style attributes)
MaxSources == 2
\* top_n ranges over -MaxTopN .. MaxTopN
MaxTopN == 2
\* number of extract_colors_from_url calls in one behaviour
MaxCalls == 2
\* number of events fed to one Aggregator run on its own
MaxFeeds == 3

----------------------------------------------------------------------------
(* Characters and hex strings *)

HexDigits == <<"0","1","2","3","4","5","6","7","8","9","a","b","c","d","e","f">>
UpperHexDigits == <<"0","1","2","3","4","5","6","7","8","9","A","B","C","D","E","F">>

\* str.lower() on one character of the model's alphabet
LowerChar(c) ==
    IF \E i \in 11..16 : UpperHexDigits[i] = c
    THEN HexDigits[CHOOSE i \in 11..16 : UpperHexDigits[i] = c]
    ELSE IF c = "X" THEN "x" ELSE c

\* str.lower() on a string
Lower(s) == [i \in 1..Len(s) |-> LowerChar(s[i])]

\* [0-9a-fA-F]
IsHexChar(c) == \E i \in 1..16 : HexDigits[i] = c \/ UpperHexDigits[i] = c

\* int(c, 16) of one hex digit
HexVal(c) == (CHOOSE i \in 1..16 : HexDigits[i] = c \/ UpperHexDigits[i] = c) - 1

\* format(n, "x") for n >= 0
RECURSIVE ToHex(_)
ToHex(n) == IF n < 16 THEN <<HexDigits[n + 1]>>
            ELSE ToHex(n \div 16) \o <<HexDigits[(n % 16) + 1]>>

\* f"{n:02x}": sign, then the digits, zero-padded to width 2
Format02x(n) ==
    IF n < 0 THEN <<"-">> \o ToHex(-n)
    ELSE IF n < 16 THEN <<"0">> \o ToHex(n)
    ELSE ToHex(n)

\* f"#{r:02x}{g:02x}{b:02x}"
FormatHex(r, g, b) == <<"#">> \o Format02x(r) \o Format02x(g) \o Format02x(b)

\* ^#[0-9a-f]{6}$
IsHexKey(h) ==
    /\ Len(h) = 7
    /\ h[1] = "#"
    /\ \A i \in 2..7 : \E j \in 1..16 : HexDigits[j] = h[i]

\* _hex_to_rgb: hex_color.lstrip("#"), then int(h[0:2], 16), int(h[2:4], 16), int(h[4:6], 16)
hex_to_rgb(hex_color) ==
    LET h == SubSeq(hex_color, 2, Len(hex_color))
    IN  <<16 * HexVal(h[1]) + HexVal(h[2]),
          16 * HexVal(h[3]) + HexVal(h[4]),
          16 * HexVal(h[5]) + HexVal(h[6])>>

----------------------------------------------------------------------------
(* IEEE-754 binary64 arithmetic, as far as _brightness needs it.           *)
(* A non-negative double below 2^14 is held exactly as a number of units   *)
(* of 2^-56, in five little-endian limbs of 14 bits: limb 5 is the integer *)
(* part, limbs 1..4 the fraction.                                          *)

LimbBase == 16384

\* the doubles nearest 0.299, 0.587 and 0.114
Dbl0299 == <<1572, 5636, 13369, 4898, 0>>
Dbl0587 == <<784, 11010, 6684, 9617, 0>>
Dbl0114 == <<14025, 16121, 12713, 1867, 0>>

RECURSIVE Carry(_, _, _)
\* normalise column sums t (each below 2^31) into limbs, from limb i on
Carry(t, i, c) ==
    IF i > Len(t) THEN <<>>
    ELSE <<(t[i] + c) % LimbBase>> \o Carry(t, i + 1, (t[i] + c) \div LimbBase)

\* exact product of a held value and an integer 0..255
DblTimesInt(x, k) == Carry([i \in 1..5 |-> x[i] * k], 1, 0)

\* exact sum of two held values
DblPlus(x, y) == Carry([i \in 1..5 |-> x[i] + y[i]], 1, 0)

RECURSIVE Pow2(_)
Pow2(n) == IF n = 0 THEN 1 ELSE 2 * Pow2(n - 1)

RECURSIVE IntBitLen(_)
IntBitLen(v) == IF v = 0 THEN 0 ELSE 1 + IntBitLen(v \div 2)

\* position of the leading one bit
DblBitLen(x) ==
    IF \A i \in 1..5 : x[i] = 0 THEN 0
    ELSE LET top == CHOOSE i \in 1..5 : x[i] # 0 /\ \A j \in (i + 1)..5 : x[j] = 0
         IN  14 * (top - 1) + IntBitLen(x[top])

\* round to 53 significant bits, ties to even (the dropped bits lie in limb 1)
DblRound(x) ==
    LET s == DblBitLen(x) - 53 IN
    IF s <= 0 THEN x
    ELSE LET p    == Pow2(s)
             rem  == x[1] % p
             odd  == (x[1] \div p) % 2 = 1
             base == [x EXCEPT ![1] = x[1] - rem]
         IN  IF 2 * rem > p \/ (2 * rem = p /\ odd)
             THEN DblPlus(base, <<p, 0, 0, 0, 0>>)
             ELSE base

\* x > t and x < t for an integer t
DblGreater(x, t) == x[5] > t \/ (x[5] = t /\ \E i \in 1..4 : x[i] # 0)
DblLess(x, t) == x[5] < t

\* the rounded products 0.299 * r, 0.587 * g and 0.114 * b, worked out once for every byte
Times0299 == [r \in 0..255 |-> DblRound(DblTimesInt(Dbl0299, r))] @@ <<>>
Times0587 == [g \in 0..255 |-> DblRound(DblTimesInt(Dbl0587, g))] @@ <<>>
Times0114 == [b \in 0..255 |-> DblRound(DblTimesInt(Dbl0114, b))] @@ <<>>

\* _brightness: 0.299 * r + 0.587 * g + 0.114 * b, evaluated left to right in doubles
brightness(hex_color) ==
    LET rgb == hex_to_rgb(hex_color)
        pr  == Times0299[rgb[1]]
        pg  == Times0587[rgb[2]]
        pb  == Times0114[rgb[3]]
    IN  DblRound(DblPlus(DblRound(DblPlus(pr, pg)), pb))

----------------------------------------------------------------------------
(* CSS texts as tinycss2 and the regex see them *)

Hash(chars)       == [type |-> "hash", name |-> "", chars |-> chars, args |-> <<>>,
                      inner |-> <<>>, huge |-> FALSE]
Ident(name)       == [type |-> "ident", name |-> name, chars |-> <<>>, args |-> <<>>,
                      inner |-> <<>>, huge |-> FALSE]
Rgb(r, g, b)      == [type |-> "function", name |-> "rgb", chars |-> <<>>,
                      args |-> <<r, g, b>>, inner |-> <<>>, huge |-> FALSE]
\* rgb() whose first channel is an integer literal too large for a float
RgbHuge(g, b)     == [type |-> "function", name |-> "rgb", chars |-> <<>>,
                      args |-> <<0, g, b>>, inner |-> <<>>, huge |-> TRUE]
\* any other function; inner lists the "#..." words written in its arguments
Func(name, inner) == [type |-> "function", name |-> name, chars |-> <<>>, args |-> <<>>,
                      inner |-> inner, huge |-> FALSE]

Decl(name, value) == [name |-> name, value |-> value]
Rule(decls)       == [kind |-> "rule", decls |-> decls, words |-> <<>>]
\* a comment; words lists the "#..." words written in it
Comment(words)    == [kind |-> "comment", decls |-> <<>>, words |-> words]

\* Declaration.lower_name / IdentToken.lower_value: ASCII lowercasing of a name
LowerName(n) ==
    CASE n = "COLOR" -> "color"
      [] n = "Background-Color" -> "background-color"
      [] n = "currentColor" -> "currentcolor"
      [] n = "RED" -> "red"
      [] OTHER -> n

NoColor == [kind |-> "none", num |-> <<0, 0, 0>>, den |-> 1]

\* ColorKeyword in which currentcolor resolves to a fixed color (black)
ColorKeywordCurrentAsBlack(v) ==
    CASE v = "red" -> [kind |-> "rgba", num |-> <<255, 0, 0>>, den |-> 255]
      [] v = "white" -> [kind |-> "rgba", num |-> <<255, 255, 255>>, den |-> 255]
      [] v = "black" -> [kind |-> "rgba", num |-> <<0, 0, 0>>, den |-> 255]
      [] v = "transparent" -> [kind |-> "rgba", num |-> <<0, 0, 0>>, den |-> 1]
      [] v = "currentcolor" -> [kind |-> "rgba", num |-> <<0, 0, 0>>, den |-> 255]
      [] OTHER -> NoColor

\* color3._COLOR_KEYWORDS, the entries for the idents of the model
ColorKeyword(v) ==
    CASE v = "red" -> [kind |-> "rgba", num |-> <<255, 0, 0>>, den |-> 255]
      [] v = "white" -> [kind |-> "rgba", num |-> <<255, 255, 255>>, den |-> 255]
      [] v = "black" -> [kind |-> "rgba", num |-> <<0, 0, 0>>, den |-> 255]
      [] v = "transparent" -> [kind |-> "rgba", num |-> <<0, 0, 0>>, den |-> 1]
      [] v = "currentcolor" -> [kind |-> "currentColor", num |-> <<0, 0, 0>>, den |-> 1]
      [] OTHER -> NoColor

\* color3.parse_color on a hash token: #rgb, #rgba, #rrggbb, #rrggbbaa, any case;
\* each channel is int(digits, 16) / 255
ParseHash(v) ==
    IF ~ (Len(v) \in {3, 4, 6, 8} /\ \A i \in 1..Len(v) : IsHexChar(v[i])) THEN NoColor
    ELSE IF Len(v) \in {3, 4}
    THEN [kind |-> "rgba", den |-> 255,
          num |-> [i \in 1..3 |-> 16 * HexVal(v[i]) + HexVal(v[i])]]
    ELSE [kind |-> "rgba", den |-> 255,
          num |-> [i \in 1..3 |-> 16 * HexVal(v[2 * i - 1]) + HexVal(v[2 * i])]]

\* color3.parse_color(token): an RGBA of channel fractions num[i] / den, the string
\* "currentColor", None, or an OverflowError (int_value / 255 of a huge integer)
parse_color(token) ==
    CASE token.type = "ident" -> ColorKeyword(LowerName(token.name))
      [] token.type = "hash" -> ParseHash(token.chars)
      [] token.type = "function" /\ LowerName(token.name) = "rgb" ->
            IF token.huge THEN [kind |-> "raise", num |-> <<0, 0, 0>>, den |-> 1]
            ELSE [kind |-> "rgba", num |-> token.args, den |-> 255]
      [] OTHER -> NoColor

RECURSIVE DivLimbs(_, _, _, _)
\* long division of the limbs x[1..i] (with rem carried in from above) by a small d:
\* the quotient's limbs and the remainder
DivLimbs(x, d, i, rem) ==
    IF i = 0 THEN [q |-> <<>>, rem |-> rem]
    ELSE LET cur   == rem * LimbBase + x[i]
             lower == DivLimbs(x, d, i - 1, cur % d)
         IN  [q |-> Append(lower.q, cur \div d), rem |-> lower.rem]

\* position of the leading one bit of a value held in any number of limbs
LimbsBitLen(x) ==
    IF \A i \in 1..Len(x) : x[i] = 0 THEN 0
    ELSE LET top == CHOOSE i \in 1..Len(x) : x[i] # 0 /\ \A j \in (i + 1)..Len(x) : x[j] = 0
         IN  14 * (top - 1) + IntBitLen(x[top])

\* x with the bits below its 53 leading ones cleared (they lie in limbs 1 and 2)
ChopTo53(x, sticky) ==
    LET s == LimbsBitLen(x) - 53 IN
    IF s <= 0 THEN x
    ELSE LET pair == x[1] + LimbBase * x[2]
             kept == pair - (pair % Pow2(s))
         IN  [x EXCEPT ![1] = kept % LimbBase, ![2] = kept \div LimbBase]

\* round to 53 significant bits, ties to even; sticky: the true value lies above x
RoundTo53(x, sticky) ==
    LET s == LimbsBitLen(x) - 53 IN
    IF s <= 0 THEN x
    ELSE LET p    == Pow2(s)
             pair == x[1] + LimbBase * x[2]
             low  == pair % p
             odd  == (pair \div p) % 2 = 1
             base == ChopTo53(x, sticky)
         IN  IF 2 * low > p \/ (2 * low = p /\ (sticky \/ odd))
             THEN Carry([i \in 1..Len(x) |->
                           base[i] + (IF i = (s \div 14) + 1 THEN Pow2(s % 14) ELSE 0)], 1, 0)
             ELSE base

\* int(x) of the float (num / den) * 255 with every operation rounded toward zero
IntOfChannelChopped(num, den) ==
    LET a        == IF num >= 0 THEN num ELSE -num
        quotient == DivLimbs(<<0, 0, 0, 0, 0, a>>, den, 6, 0)
        channel  == ChopTo53(quotient.q, quotient.rem # 0)
        scaled   == ChopTo53(Carry([i \in 1..6 |-> channel[i] * 255], 1, 0), FALSE)
    IN  IF num >= 0 THEN scaled[6] ELSE -scaled[6]

\* int(channel * 255) of the channel num / den, both operations in doubles: values are
\* held in units of 2^-70 (limbs 1..5 the fraction, limb 6 the integer part); int()
\* truncates toward zero
IntOfChannel(num, den) ==
    LET a        == IF num >= 0 THEN num ELSE -num
        quotient == DivLimbs(<<0, 0, 0, 0, 0, a>>, den, 6, 0)
        channel  == RoundTo53(quotient.q, quotient.rem # 0)
        scaled   == RoundTo53(Carry([i \in 1..6 |-> channel[i] * 255], 1, 0), FALSE)
    IN  IF num >= 0 THEN scaled[6] ELSE -scaled[6]

\* Clamp left out: the channel is formatted as computed
ClampNone(v) == v

\* max(0, min(255, v))
Clamp(v) == IF v < 0 THEN 0 ELSE IF v > 255 THEN 255 ELSE v

\* the integers an rgb() channel or a hex pair of the model's inputs can hold
ChannelNums == (-20)..300

\* int(channel * 255) for the channels num / 255, worked out once for every num
ChannelInts == [num \in ChannelNums |-> IntOfChannel(num, 255)] @@ <<>>

\* int(parsed.red * 255) and its like
ChannelInt(num, den) == IF den = 255 THEN ChannelInts[num] ELSE IntOfChannel(num, den)

\* lines 130-133: the hex key of a parsed color
ColorToHex(parsed) ==
    FormatHex(Clamp(ChannelInt(parsed.num[1], parsed.den)),
              Clamp(ChannelInt(parsed.num[2], parsed.den)),
              Clamp(ChannelInt(parsed.num[3], parsed.den)))

RECURSIVE Concat(_, _)
\* the concatenation of ss[i..]
Concat(ss, i) == IF i > Len(ss) THEN <<>> ELSE ss[i] \o Concat(ss, i + 1)

\* DeclTokens in which only the first value token of each declaration is visited
DeclTokensFirstOnly(css_text) ==
    Concat([k \in 1..Len(css_text) |->
              Concat([d \in 1..Len(css_text[k].decls) |->
                        [t \in 1..(IF Len(css_text[k].decls[d].value) > 0 THEN 1 ELSE 0) |->
                           [prop  |-> LowerName(css_text[k].decls[d].name),
                            token |-> css_text[k].decls[d].value[t]]]], 1)], 1)

\* the value tokens of a CSS text in the order lines 117-127 visit them, each with its
\* declaration's lower_name; comments are skipped (skip_comments=True)
DeclTokens(css_text) ==
    Concat([k \in 1..Len(css_text) |->
              Concat([d \in 1..Len(css_text[k].decls) |->
                        [t \in 1..Len(css_text[k].decls[d].value) |->
                           [prop  |-> LowerName(css_text[k].decls[d].name),
                            token |-> css_text[k].decls[d].value[t]]]], 1)], 1)

RECURSIVE WalkTokens(_, _)
\* lines 127-136 from token i on: the events emitted, until the end or an exception
WalkTokens(toks, i) ==
    IF i > Len(toks) THEN [events |-> <<>>, raised |-> FALSE]
    ELSE LET parsed == parse_color(toks[i].token) IN
         IF parsed.kind = "raise" THEN [events |-> <<>>, raised |-> TRUE]
         ELSE LET rest == WalkTokens(toks, i + 1) IN
              IF parsed.kind = "rgba"
              THEN [events |-> <<[hex |-> ColorToHex(parsed), prop |-> toks[i].prop]>>
                                  \o rest.events,
                    raised |-> rest.raised]
              ELSE rest

\* the structured pass over one CSS text (lines 113-136)
StructuredPassOf(css_text) == WalkTokens(DeclTokens(css_text), 1)

\* the "#..." words of the raw CSS text, in textual order (the text after each "#" up
\* to the next delimiter)
HashWords(css_text) ==
    Concat([k \in 1..Len(css_text) |->
              IF css_text[k].kind = "comment" THEN css_text[k].words
              ELSE Concat([d \in 1..Len(css_text[k].decls) |->
                             Concat([t \in 1..Len(css_text[k].decls[d].value) |->
                                LET tok == css_text[k].decls[d].value[t] IN
                                IF tok.type = "hash" THEN <<tok.chars>> ELSE tok.inner],
                                1)], 1)], 1)

\* \w
IsWordChar(c) == IsHexChar(c) \/ c \in {"x", "X", "g", "_"}

\* re "#(?:[0-9a-fA-F]{3}){1,2}\b" tried at the "#" of word w: the match, or <<>>
HexPatternMatch(w) ==
    LET hexes(n) == Len(w) >= n /\ \A i \in 1..n : IsHexChar(w[i])
        bound(n) == Len(w) = n \/ ~ IsWordChar(w[n + 1])
    IN  IF hexes(6) /\ bound(6) THEN <<"#">> \o SubSeq(w, 1, 6)
        ELSE IF hexes(3) /\ bound(3) THEN <<"#">> \o SubSeq(w, 1, 3)
        ELSE <<>>

\* lines 142-144: lowercase, expand a 3-digit match
Normalize(match) ==
    LET normalized == Lower(match) IN
    IF Len(normalized) = 4
    THEN <<"#", normalized[2], normalized[2], normalized[3], normalized[3],
           normalized[4], normalized[4]>>
    ELSE normalized

RECURSIVE RegexWalk(_, _)
RegexWalk(ws, i) ==
    IF i > Len(ws) THEN <<>>
    ELSE (IF HexPatternMatch(ws[i]) = <<>> THEN <<>>
          ELSE <<[hex |-> Normalize(HexPatternMatch(ws[i])), prop |-> "regex"]>>)
         \o RegexWalk(ws, i + 1)

\* the regex pass given up for a text whose structured pass raised
RegexPassOfUnlessRaised(css_text) ==
    IF StructuredPassOf(css_text).raised THEN <<>> ELSE RegexWalk(HashWords(css_text), 1)

\* the regex pass as a fallback only: run when the structured pass raised
RegexPassOfFallbackOnly(css_text) ==
    IF StructuredPassOf(css_text).raised THEN RegexWalk(HashWords(css_text), 1) ELSE <<>>

\* the regex pass over one CSS text (lines 141-145): its events
RegexPassOf(css_text) == RegexWalk(HashWords(css_text), 1)

\* add_color that overwrites the property set with the latest tag
add_colorLastTag(cd, hex_color, prop) ==
    LET h == Lower(hex_color) IN
    IF \E i \in 1..Len(cd) : cd[i].hex = h
    THEN [i \in 1..Len(cd) |->
            IF cd[i].hex = h
            THEN [cd[i] EXCEPT !.count = @ + 1, !.properties = {prop}]
            ELSE cd[i]]
    ELSE Append(cd, [hex |-> h, count |-> 1, properties |-> {prop}])

\* add_color that drops an event whose tag the color already carries
add_colorOncePerTag(cd, hex_color, prop) ==
    LET h == Lower(hex_color) IN
    IF \E i \in 1..Len(cd) : cd[i].hex = h
    THEN [i \in 1..Len(cd) |->
            IF cd[i].hex = h /\ prop \notin cd[i].properties
            THEN [cd[i] EXCEPT !.count = @ + 1, !.properties = @ \cup {prop}]
            ELSE cd[i]]
    ELSE Append(cd, [hex |-> h, count |-> 1, properties |-> {prop}])

\* add_color with the passes deduplicated: a "regex" event is dropped for a color the
\* structured pass has already counted
add_colorDeduplicated(cd, hex_color, prop) ==
    LET h == Lower(hex_color) IN
    IF \E i \in 1..Len(cd) : cd[i].hex = h
    THEN [i \in 1..Len(cd) |->
            IF cd[i].hex = h /\ ~ (prop = "regex" /\ cd[i].properties # {"regex"})
            THEN [cd[i] EXCEPT !.count = @ + 1, !.properties = @ \cup {prop}]
            ELSE cd[i]]
    ELSE Append(cd, [hex |-> h, count |-> 1, properties |-> {prop}])

\* _add_color: color_data is the dict as the sequence of its items in insertion order
add_color(cd, hex_color, prop) ==
    LET h == Lower(hex_color) IN
    IF \E i \in 1..Len(cd) : cd[i].hex = h
    THEN [i \in 1..Len(cd) |->
            IF cd[i].hex = h
            THEN [cd[i] EXCEPT !.count = @ + 1, !.properties = @ \cup {prop}]
            ELSE cd[i]]
    ELSE Append(cd, [hex |-> h, count |-> 1, properties |-> {prop}])

RECURSIVE AddAll(_, _, _)
\* _add_color applied to events[i..] in order
AddAll(cd, events, i) ==
    IF i > Len(events) THEN cd
    ELSE AddAll(add_color(cd, events[i].hex, events[i].prop), events, i + 1)

RECURSIVE StructuredAll(_, _, _)
StructuredAll(cd, texts, i) ==
    IF i > Len(texts) THEN cd
    ELSE StructuredAll(AddAll(cd, StructuredPassOf(texts[i]).events, 1), texts, i + 1)

RECURSIVE RegexAll(_, _, _)
RegexAll(cd, texts, i) ==
    IF i > Len(texts) THEN cd
    ELSE RegexAll(AddAll(cd, RegexPassOf(texts[i]), 1), texts, i + 1)

\* _parse_colors as a function of the CSS texts
parse_colors(texts) == RegexAll(StructuredAll(<<>>, texts, 1), texts, 1)

----------------------------------------------------------------------------
(* _categorize_colors *)

DefaultBackground == <<"#","f","f","f","f","f","f">>
DefaultText       == <<"#","1","f","2","9","3","7">>
DefaultPrimary    == <<"#","3","b","8","2","f","6">>
DefaultSecondary  == <<"#","1","0","b","9","8","1">>
DefaultAccent     == <<"#","f","5","9","e","0","b">>

\* "background" in p, for the property tags of the model
HasBackground(p) == p \in {"background", "background-color", "background-image"}

\* BucketOf in which a "background" tag always means the background bucket
BucketOfBackgroundAlways(item) ==
    LET b == brightness(item.hex) IN
    IF DblGreater(b, 240) THEN [bucket |-> "bg", weight |-> item.count]
    ELSE IF DblLess(b, 30) THEN [bucket |-> "text", weight |-> item.count]
    ELSE IF \E p \in item.properties : HasBackground(p)
    THEN [bucket |-> "bg", weight |-> item.count]
    ELSE IF \E p \in item.properties : p = "color"
    THEN IF DblLess(b, 80) THEN [bucket |-> "text", weight |-> item.count]
         ELSE [bucket |-> "accent", weight |-> item.count]
    ELSE [bucket |-> "accent", weight |-> item.count]

\* BucketOf with brightness >= 240 as the unconditional background rule
BucketOfInclusive(item) ==
    LET b == brightness(item.hex) IN
    IF ~ DblLess(b, 240) THEN [bucket |-> "bg", weight |-> item.count]
    ELSE IF DblLess(b, 30) THEN [bucket |-> "text", weight |-> item.count]
    ELSE IF \E p \in item.properties : HasBackground(p)
    THEN IF DblGreater(b, 200) THEN [bucket |-> "bg", weight |-> item.count]
         ELSE [bucket |-> "accent", weight |-> item.count * 2]
    ELSE IF \E p \in item.properties : p = "color"
    THEN IF DblLess(b, 80) THEN [bucket |-> "text", weight |-> item.count]
         ELSE [bucket |-> "accent", weight |-> item.count]
    ELSE [bucket |-> "accent", weight |-> item.count]

\* BucketOf with the property-tag rules tried before the two brightness extremes
BucketOfTagsFirst(item) ==
    LET b == brightness(item.hex) IN
    IF \E p \in item.properties : HasBackground(p)
    THEN IF DblGreater(b, 200) THEN [bucket |-> "bg", weight |-> item.count]
         ELSE [bucket |-> "accent", weight |-> item.count * 2]
    ELSE IF \E p \in item.properties : p = "color"
    THEN IF DblLess(b, 80) THEN [bucket |-> "text", weight |-> item.count]
         ELSE [bucket |-> "accent", weight |-> item.count]
    ELSE IF DblGreater(b, 240) THEN [bucket |-> "bg", weight |-> item.count]
    ELSE IF DblLess(b, 30) THEN [bucket |-> "text", weight |-> item.count]
    ELSE [bucket |-> "accent", weight |-> item.count]

\* BucketOf without the doubled weight of a mid-brightness background color
BucketOfNoDoubling(item) ==
    LET b == brightness(item.hex) IN
    IF DblGreater(b, 240) THEN [bucket |-> "bg", weight |-> item.count]
    ELSE IF DblLess(b, 30) THEN [bucket |-> "text", weight |-> item.count]
    ELSE IF \E p \in item.properties : HasBackground(p)
    THEN IF DblGreater(b, 200) THEN [bucket |-> "bg", weight |-> item.count]
         ELSE [bucket |-> "accent", weight |-> item.count]
    ELSE IF \E p \in item.properties : p = "color"
    THEN IF DblLess(b, 80) THEN [bucket |-> "text", weight |-> item.count]
         ELSE [bucket |-> "accent", weight |-> item.count]
    ELSE [bucket |-> "accent", weight |-> item.count]

\* lines 175-199 for one item of color_data: the bucket it is appended to and its weight
BucketOf(item) ==
    LET b == brightness(item.hex) IN
    IF DblGreater(b, 240) THEN [bucket |-> "bg", weight |-> item.count]
    ELSE IF DblLess(b, 30) THEN [bucket |-> "text", weight |-> item.count]
    ELSE IF \E p \in item.properties : HasBackground(p)
    THEN IF DblGreater(b, 200) THEN [bucket |-> "bg", weight |-> item.count]
         ELSE [bucket |-> "accent", weight |-> item.count * 2]
    ELSE IF \E p \in item.properties : p = "color"
    THEN IF DblLess(b, 80) THEN [bucket |-> "text", weight |-> item.count]
         ELSE [bucket |-> "accent", weight |-> item.count]
    ELSE [bucket |-> "accent", weight |-> item.count]

RECURSIVE AnyBackground(_, _)
\* any("background" in p for p in props), props iterated in the order ps, from ps[i] on
AnyBackground(ps, i) ==
    IF i > Len(ps) THEN FALSE
    ELSE IF HasBackground(ps[i]) THEN TRUE ELSE AnyBackground(ps, i + 1)

RECURSIVE AnyColor(_, _)
\* any(p == "color" for p in props), props iterated in the order ps, from ps[i] on
AnyColor(ps, i) ==
    IF i > Len(ps) THEN FALSE
    ELSE IF ps[i] = "color" THEN TRUE ELSE AnyColor(ps, i + 1)

\* BucketOfIterated in which the first tag the set yields decides (next(iter(props)))
BucketOfFirstTag(item, ps) ==
    LET b == brightness(item.hex) IN
    IF DblGreater(b, 240) THEN [bucket |-> "bg", weight |-> item.count]
    ELSE IF DblLess(b, 30) THEN [bucket |-> "text", weight |-> item.count]
    ELSE IF HasBackground(ps[1])
    THEN IF DblGreater(b, 200) THEN [bucket |-> "bg", weight |-> item.count]
         ELSE [bucket |-> "accent", weight |-> item.count * 2]
    ELSE IF ps[1] = "color"
    THEN IF DblLess(b, 80) THEN [bucket |-> "text", weight |-> item.count]
         ELSE [bucket |-> "accent", weight |-> item.count]
    ELSE [bucket |-> "accent", weight |-> item.count]

\* lines 175-199 for one item, the two generator expressions walking the property set
\* in the order ps in which this run's set happens to iterate
BucketOfIterated(item, ps) ==
    LET b == brightness(item.hex) IN
    IF DblGreater(b, 240) THEN [bucket |-> "bg", weight |-> item.count]
    ELSE IF DblLess(b, 30) THEN [bucket |-> "text", weight |-> item.count]
    ELSE IF AnyBackground(ps, 1)
    THEN IF DblGreater(b, 200) THEN [bucket |-> "bg", weight |-> item.count]
         ELSE [bucket |-> "accent", weight |-> item.count * 2]
    ELSE IF AnyColor(ps, 1)
    THEN IF DblLess(b, 80) THEN [bucket |-> "text", weight |-> item.count]
         ELSE [bucket |-> "accent", weight |-> item.count]
    ELSE [bucket |-> "accent", weight |-> item.count]

RECURSIVE Placements(_, _)
\* the loop of lines 174-199 from item i on: where each item of color_data goes
Placements(cd, i) ==
    IF i > Len(cd) THEN <<>>
    ELSE <<[hex |-> cd[i].hex, bucket |-> BucketOf(cd[i]).bucket,
            weight |-> BucketOf(cd[i]).weight]>> \o Placements(cd, i + 1)

\* the (hex, weight) pairs appended to one bucket list, in order of appending
FillBucket(placed, name) ==
    LET mine == SelectSeq(placed, LAMBDA e : e.bucket = name)
    IN  [i \in 1..Len(mine) |-> [hex |-> mine[i].hex, weight |-> mine[i].weight]]

\* list.sort(key=lambda x: -key) / sorted(...): stable, descending by key[i] of seq[i]
SortDesc(seq, key) ==
    LET pos(i) == 1 + Cardinality({j \in 1..Len(seq) :
                        key[j] > key[i] \/ (key[j] = key[i] /\ j < i)})
    IN  [p \in 1..Len(seq) |-> seq[CHOOSE i \in 1..Len(seq) : pos(i) = p]]

\* x[1] of the (hex, weight) pairs, data["count"] of the items
Weights(seq) == [i \in 1..Len(seq) |-> seq[i].weight]
Counts(seq) == [i \in 1..Len(seq) |-> seq[i].count]

\* SortedBuckets without the three sorts of lines 202-204: the lists as appended
SortedBucketsAsAppended(cd) ==
    LET placed == Placements(cd, 1) IN
    [bg     |-> FillBucket(placed, "bg"),
     text   |-> FillBucket(placed, "text"),
     accent |-> FillBucket(placed, "accent")]

\* lines 170-204: the three bucket lists, sorted
SortedBuckets(cd) ==
    LET placed == Placements(cd, 1) IN
    [bg     |-> SortDesc(FillBucket(placed, "bg"), Weights(FillBucket(placed, "bg"))),
     text   |-> SortDesc(FillBucket(placed, "text"), Weights(FillBucket(placed, "text"))),
     accent |-> SortDesc(FillBucket(placed, "accent"), Weights(FillBucket(placed, "accent")))]

\* SelectRoles with the text default of another palette (#000000)
SelectRolesOtherDefault(b) ==
    [background |-> IF Len(b.bg) > 0 THEN b.bg[1].hex ELSE DefaultBackground,
     text       |-> IF Len(b.text) > 0 THEN b.text[1].hex
                    ELSE <<"#","0","0","0","0","0","0">>,
     primary    |-> IF Len(b.accent) > 0 THEN b.accent[1].hex ELSE DefaultPrimary,
     secondary  |-> IF Len(b.accent) > 1 THEN b.accent[2].hex ELSE DefaultSecondary,
     accent     |-> IF Len(b.accent) > 2 THEN b.accent[3].hex ELSE DefaultAccent]

\* SelectRoles that leaves the accent role out when the accent bucket is short
SelectRolesSparse(b) ==
    IF Len(b.accent) > 2
    THEN [background |-> IF Len(b.bg) > 0 THEN b.bg[1].hex ELSE DefaultBackground,
          text       |-> IF Len(b.text) > 0 THEN b.text[1].hex ELSE DefaultText,
          primary    |-> b.accent[1].hex,
          secondary  |-> b.accent[2].hex,
          accent     |-> b.accent[3].hex]
    ELSE [background |-> IF Len(b.bg) > 0 THEN b.bg[1].hex ELSE DefaultBackground,
          text       |-> IF Len(b.text) > 0 THEN b.text[1].hex ELSE DefaultText,
          primary    |-> IF Len(b.accent) > 0 THEN b.accent[1].hex ELSE DefaultPrimary,
          secondary  |-> IF Len(b.accent) > 1 THEN b.accent[2].hex ELSE DefaultSecondary]

\* SelectRoles in which a role short of an entry repeats the top accent entry
SelectRolesRepeating(b) ==
    [background |-> IF Len(b.bg) > 0 THEN b.bg[1].hex ELSE DefaultBackground,
     text       |-> IF Len(b.text) > 0 THEN b.text[1].hex ELSE DefaultText,
     primary    |-> IF Len(b.accent) > 0 THEN b.accent[1].hex ELSE DefaultPrimary,
     secondary  |-> IF Len(b.accent) > 1 THEN b.accent[2].hex
                    ELSE IF Len(b.accent) > 0 THEN b.accent[1].hex ELSE DefaultSecondary,
     accent     |-> IF Len(b.accent) > 2 THEN b.accent[3].hex ELSE DefaultAccent]

\* lines 206-212: the returned dict
SelectRoles(b) ==
    [background |-> IF Len(b.bg) > 0 THEN b.bg[1].hex ELSE DefaultBackground,
     text       |-> IF Len(b.text) > 0 THEN b.text[1].hex ELSE DefaultText,
     primary    |-> IF Len(b.accent) > 0 THEN b.accent[1].hex ELSE DefaultPrimary,
     secondary  |-> IF Len(b.accent) > 1 THEN b.accent[2].hex ELSE DefaultSecondary,
     accent     |-> IF Len(b.accent) > 2 THEN b.accent[3].hex ELSE DefaultAccent]

\* _categorize_colors as a function of color_data
categorize_colors(cd) == SelectRoles(SortedBuckets(cd))

----------------------------------------------------------------------------
(* the top-N list of extract_colors_from_url *)

\* SliceTo that keeps one entry more: seq[:n + 1] for n >= 0
SliceToInclusive(seq, n) ==
    LET stop == IF n >= 0 THEN (IF n + 1 < Len(seq) THEN n + 1 ELSE Len(seq))
                ELSE (IF Len(seq) + n > 0 THEN Len(seq) + n ELSE 0)
    IN  SubSeq(seq, 1, stop)

\* seq[:n] of Python: a negative n counts from the end
SliceTo(seq, n) ==
    LET stop == IF n >= 0 THEN (IF n < Len(seq) THEN n ELSE Len(seq))
                ELSE (IF Len(seq) + n > 0 THEN Len(seq) + n ELSE 0)
    IN  SubSeq(seq, 1, stop)

\* TopColors sorting by the classifier's weight instead of the raw count
TopColorsByWeight(cd, n) ==
    SliceTo(SortDesc(cd, [i \in 1..Len(cd) |-> BucketOf(cd[i]).weight]), n)

\* lines 40-43
TopColors(cd, n) == SliceTo(SortDesc(cd, Counts(cd)), n)

\* list(data["properties"])[:5]
PropertiesShown == 5

RECURSIVE Orders(_)
\* list(S) of a set: its members once each, in an order the set chooses
Orders(S) ==
    IF S = {} THEN {<<>>}
    ELSE UNION {{<<x>> \o o : o \in Orders(S \ {x})} : x \in S}

\* PropertyLists without the [:5]
PropertyListsUntruncated(S) == Orders(S)

\* the values list(data["properties"])[:5] can take
PropertyLists(S) == {SliceTo(o, PropertiesShown) : o \in Orders(S)}

RECURSIVE AllColorsOf(_, _)
\* lines 47-54 from entry i of top_colors on: the lists the comprehension can build
AllColorsOf(top, i) ==
    IF i > Len(top) THEN {<<>>}
    ELSE {<<[hex |-> top[i].hex, count |-> top[i].count, properties |-> ps]>> \o rest :
            ps \in PropertyLists(top[i].properties), rest \in AllColorsOf(top, i + 1)}

----------------------------------------------------------------------------
(* _categorize_colors with the iteration order of each property set made explicit: *)
(* a set of str iterates in an order that differs from run to run                  *)

RECURSIVE IterationOrders(_, _)
\* one iteration order for the property set of each item of color_data, from item i on
IterationOrders(cd, i) ==
    IF i > Len(cd) THEN {<<>>}
    ELSE {<<o>> \o rest : o \in Orders(cd[i].properties), rest \in IterationOrders(cd, i + 1)}

\* the loop of lines 174-199 when the property set of item i iterates in the order ords[i]
PlacementsIterated(cd, ords) ==
    [i \in 1..Len(cd) |->
        LET placed == BucketOfIterated(cd[i], ords[i])
        IN  [hex |-> cd[i].hex, bucket |-> placed.bucket, weight |-> placed.weight]]

\* lines 170-212 of a run in which the property sets iterate in the orders ords
categorize_colors_iterated(cd, ords) ==
    LET placed == PlacementsIterated(cd, ords) IN
    SelectRoles(
        [bg     |-> SortDesc(FillBucket(placed, "bg"), Weights(FillBucket(placed, "bg"))),
         text   |-> SortDesc(FillBucket(placed, "text"), Weights(FillBucket(placed, "text"))),
         accent |-> SortDesc(FillBucket(placed, "accent"),
                             Weights(FillBucket(placed, "accent")))])

----------------------------------------------------------------------------
(* The inputs of the model: CSS sources a page can carry *)

\* body{background-color:#ffffff} h1{color:#111111} .btn{background-color:#3366ff}
CssScenarioA ==
    <<Rule(<<Decl("background-color", <<Hash(<<"f","f","f","f","f","f">>)>>)>>),
      Rule(<<Decl("color", <<Hash(<<"1","1","1","1","1","1">>)>>)>>),
      Rule(<<Decl("background-color", <<Hash(<<"3","3","6","6","f","f">>)>>)>>)>>

\* a{color:#ff0000;} /* #ff0000 */
CssScenarioC ==
    <<Rule(<<Decl("color", <<Hash(<<"f","f","0","0","0","0">>)>>)>>),
      Comment(<<<<"f","f","0","0","0","0">>>>)>>

\* p{margin:auto; color:currentColor} /* #12 #fffg */
CssNoColor ==
    <<Rule(<<Decl("margin", <<Ident("auto")>>), Decl("color", <<Ident("currentColor")>>)>>),
      Comment(<<<<"1","2">>, <<"f","f","f","g">>>>)>>

\* a <style> tag whose .string is empty
CssEmptyString == <<>>

\* a{COLOR:#FFF; border-color:#ABC; fill:rgb(300,-20,128)}
CssShorthand ==
    <<Rule(<<Decl("COLOR", <<Hash(<<"F","F","F">>)>>),
             Decl("border-color", <<Hash(<<"A","B","C">>)>>),
             Decl("fill", <<Rgb(300, -20, 128)>>)>>)>>

\* colors on the brightness thresholds, written as rgb():
\* the six colors with 0.299 R + 0.587 G + 0.114 B = 240, then 241, 240.002, 30, 200, 80,
\* and a near-black background color (brightness 10)
CssThresholds ==
    <<Rule(<<Decl("color", <<Rgb(240, 240, 240)>>)>>),
      Rule(<<Decl("border-color", <<Rgb(225, 249, 233)>>)>>),
      Rule(<<Decl("fill", <<Rgb(236, 250, 199)>>)>>),
      Rule(<<Decl("color", <<Rgb(247, 251, 165)>>)>>),
      Rule(<<Decl("outline-color", <<Rgb(255, 231, 247)>>)>>),
      Rule(<<Decl("background-color", <<Rgb(251, 241, 206)>>)>>),
      Rule(<<Decl("color", <<Rgb(241, 241, 241)>>)>>),
      Rule(<<Decl("color", <<Rgb(217, 249, 254)>>)>>),
      Rule(<<Decl("color", <<Rgb(15, 39, 23)>>)>>),
      Rule(<<Decl("background-color", <<Rgb(144, 226, 213)>>)>>),
      Rule(<<Decl("color", <<Rgb(13, 105, 127)>>)>>),
      Rule(<<Decl("background-color", <<Rgb(10, 10, 10)>>)>>)>>

\* a{color:red; border-color:rgb(1e400...,0,0); background:#00ff00}
CssOverflow ==
    <<Rule(<<Decl("color", <<Ident("RED")>>),
             Decl("border-color", <<RgbHuge(0, 0)>>),
             Decl("background", <<Hash(<<"0","0","f","f","0","0">>)>>)>>)>>

\* style="background-image:linear-gradient(#3366ff, #fff); color:transparent"
InlineGradient ==
    <<Decl("background-image",
           <<Func("linear-gradient", <<<<"3","3","6","6","f","f">>, <<"f","f","f">>>>)>>),
      Decl("color", <<Ident("transparent")>>)>>

\* style="Background-Color:rgb(51,102,255) white"
InlineBrand == <<Decl("Background-Color", <<Rgb(51, 102, 255), Ident("white")>>)>>

\* one color under six properties
InlineManyTags ==
    <<Decl("color", <<Rgb(128, 128, 128)>>), Decl("background-color", <<Rgb(128, 128, 128)>>),
      Decl("border-color", <<Rgb(128, 128, 128)>>), Decl("outline-color", <<Rgb(128, 128, 128)>>),
      Decl("fill", <<Rgb(128, 128, 128)>>), Decl("stroke", <<Rgb(128, 128, 128)>>)>>

\* a{color:#ABC} b{color:currentColor #aabbcc} c{color:#AABBCC}
CssSpellings ==
    <<Rule(<<Decl("color", <<Hash(<<"A","B","C">>)>>)>>),
      Rule(<<Decl("color", <<Ident("currentColor"),
                             Hash(<<"a","a","b","b","c","c">>)>>)>>),
      Rule(<<Decl("color", <<Hash(<<"A","A","B","B","C","C">>)>>)>>)>>

\* a{color:#3366FFCC} b{border-color:#ABCDEF} c{fill:rgb(1,2,3)} d{stroke:black}
CssAlpha ==
    <<Rule(<<Decl("color", <<Hash(<<"3","3","6","6","F","F","C","C">>)>>)>>),
      Rule(<<Decl("border-color", <<Hash(<<"A","B","C","D","E","F">>)>>)>>),
      Rule(<<Decl("fill", <<Rgb(1, 2, 3)>>)>>),
      Rule(<<Decl("stroke", <<Ident("black")>>)>>)>>

\* a{fill:red red red} b{background-color:rgb(51,102,255) rgb(51,102,255)}
CssRanked ==
    <<Rule(<<Decl("fill", <<Ident("red"), Ident("red"), Ident("red")>>)>>),
      Rule(<<Decl("background-color", <<Rgb(51, 102, 255), Rgb(51, 102, 255)>>)>>)>>

\* x{background-color:rgb(144,226,213)} y{color:rgb(13,105,127)}: brightness exactly 200
\* and exactly 80
CssEdges ==
    <<Rule(<<Decl("background-color", <<Rgb(144, 226, 213)>>)>>),
      Rule(<<Decl("color", <<Rgb(13, 105, 127)>>)>>)>>

\* a{background-color:rgb(31,41,55)}: the default text color as a brand color
CssDefaultText == <<Rule(<<Decl("background-color", <<Rgb(31, 41, 55)>>)>>)>>

StyleSamples  == {CssScenarioA, CssScenarioC, CssNoColor, CssEmptyString}
SheetSamples  == {CssShorthand, CssThresholds, CssOverflow, CssSpellings}
InlineSamples == {InlineGradient, InlineBrand}

\* href attributes: resolvable, absent/empty, and one urljoin rejects ("Invalid IPv6 URL")
Hrefs == {"main.css", "", "//["}
MalformedHrefs == {"//["}

SeqsOf(S, n) == [1..n -> S]

\* the pages the primary fetch can return
Pages ==
    UNION {{[styles |-> s, links |-> l, inline |-> a] :
              s \in SeqsOf(StyleSamples, c[1]), l \in SeqsOf(Hrefs, c[2]),
              a \in SeqsOf(InlineSamples, c[3])} :
           c \in {d \in (0..MaxSources) \X (0..MaxSources) \X (0..MaxSources) :
                    d[1] + d[2] + d[3] <= MaxSources}}
    \cup {[styles |-> <<>>, links |-> <<>>, inline |-> <<InlineManyTags>>],
          [styles |-> <<CssAlpha>>, links |-> <<>>, inline |-> <<>>],
          [styles |-> <<CssRanked>>, links |-> <<>>, inline |-> <<>>],
          [styles |-> <<CssEdges>>, links |-> <<>>, inline |-> <<>>],
          [styles |-> <<CssDefaultText>>, links |-> <<>>, inline |-> <<>>]}

TopNs == (-1)..MaxTopN

----------------------------------------------------------------------------
(* extract_colors_from_url as a state machine *)

\* the events an Aggregator run is fed on its own
AggEvents ==
    {[hex |-> <<"#","f","f","0","0","0","0">>, prop |-> "color"],
     [hex |-> <<"#","f","f","0","0","0","0">>, prop |-> "regex"],
     [hex |-> <<"#","3","3","6","6","f","f">>, prop |-> "background-color"],
     [hex |-> <<"#","3","3","6","6","f","f">>, prop |-> "regex"]}

\* line 102: a run starts with an empty color_data; fed counts the events fed, n is
\* their number
FreshAggregator == [map |-> <<>>, fed |-> [e \in AggEvents |-> 0], n |-> 0]

\* the registered sites, and current_site when none is selected (None)
Sites == {"site-a", "site-b"}
NoSite == "None"

\* what the user can have typed into the URL field
UrlInputs == {"", "https://a.example", "https://b.example"}

\* config_manager.DEFAULT_CONFIG: the fields the page reads or writes here, and one
\* color field it leaves alone
DEFAULT_CONFIG ==
    [brand_name       |-> "",
     site_url         |-> "",
     primary_color    |-> <<"#","3","B","8","2","F","6">>,
     secondary_color  |-> <<"#","1","0","B","9","8","1">>,
     accent_color     |-> <<"#","F","5","9","E","0","B">>,
     background_color |-> <<"#","F","F","F","F","F","F">>,
     text_color       |-> <<"#","1","F","2","9","3","7">>,
     danger_color     |-> <<"#","E","7","4","A","3","B">>]

\* extract_colors_from_url(url): top_n takes its default
DefaultTopN == 20

\* the PaletteResults extract_colors_from_url(url_input) can return to the page: those
\* of pages with one CSS source
ExtractedResults ==
    UNION {{[suggested |-> categorize_colors(parse_colors(<<t>>)), all_colors |-> ac] :
              ac \in AllColorsOf(TopColors(parse_colors(<<t>>), DefaultTopN), 1)} :
           t \in {CssScenarioA, CssNoColor, CssShorthand}}

NoResult == <<>>
EmptyBuckets == [bg |-> <<>>, text |-> <<>>, accent |-> <<>>]

Init ==
    /\ pc = "idle"
    /\ top_n = 0
    /\ page = <<>>
    /\ page_status = "none"
    /\ link_i = 1
    /\ sheet_log = <<>>
    /\ css_texts = <<>>
    /\ text_i = 1
    /\ color_data = <<>>
    /\ raised_log = <<>>
    /\ buckets = EmptyBuckets
    /\ suggested = <<>>
    /\ result = NoResult
    /\ error = "none"
    /\ calls = 0
    /\ feeds = <<FreshAggregator, FreshAggregator>>
    /\ session_state = [current_site |-> NoSite, site_config |-> <<>>,
                        extracted_colors |-> <<>>, extracted_url |-> <<>>,
                        button |-> "none", message |-> "none"]
    /\ saved_configs = [s \in Sites |-> [DEFAULT_CONFIG EXCEPT !.brand_name = s]]

\* Call with the list of CSS texts kept from the call before (a module-level list)
CallKeepingTexts ==
    /\ pc \in {"idle", "done", "raised"}
    /\ calls < MaxCalls
    /\ calls' = calls + 1
    /\ \E n \in TopNs : top_n' = n
    /\ pc' = "fetch_page"
    /\ page' = <<>>
    /\ page_status' = "none"
    /\ link_i' = 1
    /\ sheet_log' = <<>>
    /\ text_i' = 1
    /\ color_data' = <<>>
    /\ raised_log' = <<>>
    /\ buckets' = EmptyBuckets
    /\ suggested' = <<>>
    /\ result' = NoResult
    /\ error' = "none"
    /\ UNCHANGED <<css_texts, feeds, session_state, saved_configs>>

\* a caller invokes extract_colors_from_url(url, n); every local starts afresh
Call ==
    /\ pc \in {"idle", "done", "raised"}
    /\ calls < MaxCalls
    /\ calls' = calls + 1
    /\ \E n \in TopNs : top_n' = n
    /\ pc' = "fetch_page"
    /\ page' = <<>>
    /\ page_status' = "none"
    /\ link_i' = 1
    /\ sheet_log' = <<>>
    /\ css_texts' = <<>>
    /\ text_i' = 1
    /\ color_data' = <<>>
    /\ raised_log' = <<>>
    /\ buckets' = EmptyBuckets
    /\ suggested' = <<>>
    /\ result' = NoResult
    /\ error' = "none"
    /\ UNCHANGED <<feeds, session_state, saved_configs>>

\* lines 61-67: the primary fetch succeeds and the HTML is parsed
FetchPageOk ==
    /\ pc = "fetch_page"
    /\ \E p \in Pages : page' = <<p>>
    /\ page_status' = "ok"
    /\ pc' = "styles"
    /\ UNCHANGED <<top_n, link_i, sheet_log, css_texts, text_i, color_data, raised_log,
                   buckets, suggested, result, error, calls, feeds,
                   session_state, saved_configs>>

\* FetchPageFailed with the exception swallowed: the call goes on with an empty document
FetchPageFailedSwallowed ==
    /\ pc = "fetch_page"
    /\ page_status' = "failed"
    /\ page' = <<[styles |-> <<>>, links |-> <<>>, inline |-> <<>>]>>
    /\ pc' = "styles"
    /\ UNCHANGED <<top_n, link_i, sheet_log, css_texts, text_i, color_data, raised_log,
                   buckets, suggested, result, error, calls, feeds,
                   session_state, saved_configs>>

\* lines 61-65: requests.get or raise_for_status raises a RequestException
FetchPageFailed ==
    /\ pc = "fetch_page"
    /\ page_status' = "failed"
    /\ error' = "ConnectionError"
    /\ pc' = "raised"
    /\ UNCHANGED <<top_n, page, link_i, sheet_log, css_texts, text_i, color_data,
                   raised_log, buckets, suggested, result, calls, feeds,
                   session_state, saved_configs>>

\* the style tags whose .string is truthy, in document order
StyleStrings(styles) == SelectSeq(styles, LAMBDA t : t # CssEmptyString)

\* lines 71-73
CollectStyleTags ==
    /\ pc = "styles"
    /\ css_texts' = css_texts \o StyleStrings(page[1].styles)
    /\ link_i' = 1
    /\ pc' = "links"
    /\ UNCHANGED <<top_n, page, page_status, sheet_log, text_i, color_data, raised_log,
                   buckets, suggested, result, error, calls, feeds,
                   session_state, saved_configs>>

AtLink == pc = "links" /\ link_i <= Len(page[1].links)

\* lines 77-78: a link without a (non-empty) href is passed over
SkipLinkWithoutHref ==
    /\ AtLink
    /\ page[1].links[link_i] = ""
    /\ sheet_log' = Append(sheet_log, [status |-> "nohref", text |-> <<>>])
    /\ link_i' = link_i + 1
    /\ UNCHANGED <<pc, top_n, page, page_status, css_texts, text_i, color_data, raised_log,
                   buckets, suggested, result, error, calls, feeds,
                   session_state, saved_configs>>

\* line 79: urljoin(url, href) raises ValueError, outside the try of lines 80-85
ResolveHrefRaises ==
    /\ AtLink
    /\ page[1].links[link_i] \in MalformedHrefs
    /\ error' = "ValueError"
    /\ pc' = "raised"
    /\ UNCHANGED <<top_n, page, page_status, link_i, sheet_log, css_texts, text_i,
                   color_data, raised_log, buckets, suggested, result, calls, feeds,
                   session_state, saved_configs>>

\* lines 79-83: the stylesheet is fetched and its text appended
FetchStylesheetOk ==
    /\ AtLink
    /\ page[1].links[link_i] \notin MalformedHrefs \cup {""}
    /\ \E t \in SheetSamples :
          /\ css_texts' = Append(css_texts, t)
          /\ sheet_log' = Append(sheet_log, [status |-> "ok", text |-> t])
    /\ link_i' = link_i + 1
    /\ UNCHANGED <<pc, top_n, page, page_status, text_i, color_data, raised_log,
                   buckets, suggested, result, error, calls, feeds,
                   session_state, saved_configs>>

\* lines 79-85: the stylesheet fetch raises a RequestException, which is swallowed
FetchStylesheetFailed ==
    /\ AtLink
    /\ page[1].links[link_i] \notin MalformedHrefs \cup {""}
    /\ sheet_log' = Append(sheet_log, [status |-> "failed", text |-> <<>>])
    /\ link_i' = link_i + 1
    /\ UNCHANGED <<pc, top_n, page, page_status, css_texts, text_i, color_data, raised_log,
                   buckets, suggested, result, error, calls, feeds,
                   session_state, saved_configs>>

\* f"dummy {{ {tag['style']} }}"
InlineText(attr) == <<Rule(attr)>>

\* lines 88-91, then line 102: the inline styles are appended, css_texts is returned
\* and _parse_colors starts with an empty color_data
CollectInlineStyles ==
    /\ pc = "links"
    /\ link_i > Len(page[1].links)
    /\ css_texts' = css_texts \o [i \in 1..Len(page[1].inline) |-> InlineText(page[1].inline[i])]
    /\ color_data' = <<>>
    /\ text_i' = 1
    /\ pc' = "structured"
    /\ UNCHANGED <<top_n, page, page_status, link_i, sheet_log, raised_log, buckets,
                   suggested, result, error, calls, feeds,
                   session_state, saved_configs>>

\* lines 112-136, one CSS text: its events are added until the text ends or raises
StructuredPass ==
    /\ pc = "structured"
    /\ text_i <= Len(css_texts)
    /\ color_data' = AddAll(color_data, StructuredPassOf(css_texts[text_i]).events, 1)
    /\ raised_log' = Append(raised_log, StructuredPassOf(css_texts[text_i]).raised)
    /\ text_i' = text_i + 1
    /\ UNCHANGED <<pc, top_n, page, page_status, link_i, sheet_log, css_texts, buckets,
                   suggested, result, error, calls, feeds,
                   session_state, saved_configs>>

\* line 112 exhausted; lines 139-140 start the regex loop
StartRegexPass ==
    /\ pc = "structured"
    /\ text_i > Len(css_texts)
    /\ text_i' = 1
    /\ pc' = "regex"
    /\ UNCHANGED <<top_n, page, page_status, link_i, sheet_log, css_texts, color_data,
                   raised_log, buckets, suggested, result, error, calls, feeds,
                   session_state, saved_configs>>

\* lines 140-145, one CSS text
RegexPass ==
    /\ pc = "regex"
    /\ text_i <= Len(css_texts)
    /\ color_data' = AddAll(color_data, RegexPassOf(css_texts[text_i]), 1)
    /\ text_i' = text_i + 1
    /\ UNCHANGED <<pc, top_n, page, page_status, link_i, sheet_log, css_texts, raised_log,
                   buckets, suggested, result, error, calls, feeds,
                   session_state, saved_configs>>

\* Categorize writing each weight back into the map (data["count"] = weight)
CategorizeWritingWeights ==
    /\ pc = "regex"
    /\ text_i > Len(css_texts)
    /\ buckets' = SortedBuckets(color_data)
    /\ suggested' = <<SelectRoles(buckets')>>
    /\ color_data' = [i \in 1..Len(color_data) |->
                        [color_data[i] EXCEPT !.count = BucketOf(color_data[i]).weight]]
    /\ pc' = "rank"
    /\ UNCHANGED <<top_n, page, page_status, link_i, sheet_log, css_texts, text_i,
                   raised_log, result, error, calls, feeds,
                   session_state, saved_configs>>

\* line 147 returns color_data; line 37 calls _categorize_colors
Categorize ==
    /\ pc = "regex"
    /\ text_i > Len(css_texts)
    /\ buckets' = SortedBuckets(color_data)
    /\ suggested' = <<SelectRoles(buckets')>>
    /\ pc' = "rank"
    /\ UNCHANGED <<top_n, page, page_status, link_i, sheet_log, css_texts, text_i,
                   color_data, raised_log, result, error, calls, feeds,
                   session_state, saved_configs>>

\* lines 40-55: the top-N list is built and the PaletteResult returned
Return ==
    /\ pc = "rank"
    /\ \E all_colors \in AllColorsOf(TopColors(color_data, top_n), 1) :
          result' = <<[suggested |-> suggested[1], all_colors |-> all_colors]>>
    /\ pc' = "done"
    /\ UNCHANGED <<top_n, page, page_status, link_i, sheet_log, css_texts, text_i,
                   color_data, raised_log, buckets, suggested, error, calls, feeds,
                   session_state, saved_configs>>

Next ==
    \/ Call
    \/ FetchPageOk
    \/ FetchPageFailed
    \/ CollectStyleTags
    \/ SkipLinkWithoutHref
    \/ ResolveHrefRaises
    \/ FetchStylesheetOk
    \/ FetchStylesheetFailed
    \/ CollectInlineStyles
    \/ StructuredPass
    \/ StartRegexPass
    \/ RegexPass
    \/ Categorize
    \/ Return

Spec == Init /\ [][Next]_vars

\* one event is fed to one of the two Aggregator runs: _add_color runs to its end
\* (lines 104-109) before the next event of that run
FeedEvent ==
    /\ pc = "idle"
    /\ \E side \in 1..2, e \in AggEvents :
          /\ feeds[side].n < MaxFeeds
          /\ feeds' = [feeds EXCEPT ![side] =
                          [map |-> add_color(@.map, e.hex, e.prop),
                           fed |-> [@.fed EXCEPT ![e] = @ + 1],
                           n   |-> @.n + 1]]
    /\ UNCHANGED <<pc, top_n, page, page_status, link_i, sheet_log, css_texts, text_i,
                   color_data, raised_log, buckets, suggested, result, error, calls,
                   session_state, saved_configs>>

\* the Aggregator on its own, fed any events in any order
SpecAggregator == Init /\ [][FeedEvent]_vars

----------------------------------------------------------------------------
(* pages/02_site_settings.py: the color extraction panel of the site settings page *)

\* the variables of one extract_colors_from_url call
call_vars == <<pc, top_n, page, page_status, link_i, sheet_log, css_texts, text_i,
               color_data, raised_log, buckets, suggested, result, error, calls>>

\* app.py lines 91-94: another site is chosen in the sidebar and its record loaded
SelectSite ==
    /\ \E s \in Sites :
          /\ s # session_state.current_site
          /\ session_state' = [session_state EXCEPT !.current_site = s,
                                                    !.site_config = saved_configs[s],
                                                    !.button = "sidebar_site_select",
                                                    !.message = "none"]
    /\ UNCHANGED <<call_vars, feeds, saved_configs>>

\* app.py lines 95-98: the placeholder entry is chosen in the sidebar
DeselectSite ==
    /\ session_state.current_site # NoSite
    /\ session_state' = [session_state EXCEPT !.current_site = NoSite,
                                              !.site_config = <<>>,
                                              !.button = "sidebar_site_select",
                                              !.message = "none"]
    /\ UNCHANGED <<call_vars, feeds, saved_configs>>

\* lines 114-116: the extract button with an empty URL field
ExtractColorsWithoutUrl ==
    /\ session_state.current_site # NoSite
    /\ session_state' = [session_state EXCEPT !.button = "btn_extract_colors",
                                              !.message = "url_required"]
    /\ UNCHANGED <<call_vars, feeds, saved_configs>>

\* lines 114-123: the extract button; extract_colors_from_url returns a result
ExtractColorsOk ==
    /\ session_state.current_site # NoSite
    /\ \E url_input \in UrlInputs \ {""}, r \in ExtractedResults :
          session_state' = [session_state EXCEPT !.extracted_colors = <<r>>,
                                                 !.extracted_url = <<url_input>>,
                                                 !.button = "btn_extract_colors",
                                                 !.message = "none"]
    /\ UNCHANGED <<call_vars, feeds, saved_configs>>

\* lines 114-125: the extract button; extract_colors_from_url raises, st.error reports it
ExtractColorsFailed ==
    /\ session_state.current_site # NoSite
    /\ session_state' = [session_state EXCEPT !.button = "btn_extract_colors",
                                              !.message = "extract_failed"]
    /\ UNCHANGED <<call_vars, feeds, saved_configs>>

\* ApplyColors with two roles crossed: accent_color takes the secondary suggestion
ApplyColorsCrossed ==
    /\ session_state.current_site # NoSite
    /\ session_state.extracted_colors # <<>>
    /\ LET palette == session_state.extracted_colors[1].suggested
           config  == [session_state.site_config EXCEPT
                          !.site_url         = session_state.extracted_url[1],
                          !.primary_color    = palette.primary,
                          !.secondary_color  = palette.accent,
                          !.accent_color     = palette.secondary,
                          !.background_color = palette.background,
                          !.text_color       = palette.text]
       IN  /\ saved_configs' = [saved_configs EXCEPT ![session_state.current_site] = config]
           /\ session_state' = [session_state EXCEPT !.site_config = config,
                                                     !.extracted_colors = <<>>,
                                                     !.button = "btn_apply_colors",
                                                     !.message = "none"]
    /\ UNCHANGED <<call_vars, feeds>>

\* lines 127-129, 159-169: the apply button, shown while a result is pending
ApplyColors ==
    /\ session_state.current_site # NoSite
    /\ session_state.extracted_colors # <<>>
    /\ LET palette == session_state.extracted_colors[1].suggested
           config  == [session_state.site_config EXCEPT
                          !.site_url         = session_state.extracted_url[1],
                          !.primary_color    = palette.primary,
                          !.secondary_color  = palette.secondary,
                          !.accent_color     = palette.accent,
                          !.background_color = palette.background,
                          !.text_color       = palette.text]
       IN  /\ saved_configs' = [saved_configs EXCEPT ![session_state.current_site] = config]
           /\ session_state' = [session_state EXCEPT !.site_config = config,
                                                     !.extracted_colors = <<>>,
                                                     !.button = "btn_apply_colors",
                                                     !.message = "none"]
    /\ UNCHANGED <<call_vars, feeds>>

NextSettings ==
    \/ SelectSite
    \/ DeselectSite
    \/ ExtractColorsWithoutUrl
    \/ ExtractColorsOk
    \/ ExtractColorsFailed
    \/ ApplyColors

SpecSettings == Init /\ [][NextSettings]_vars

----------------------------------------------------------------------------
(* Properties *)

Returned == result # NoResult
Suggested == result[1].suggested
AllColors == result[1].all_colors

\* _parse_colors has returned: color_data is the finished AggregateMap
Parsed == pc \in {"rank", "done"} \/ (pc = "regex" /\ text_i > Len(css_texts))

\* the sources left when the failed stylesheets are taken out: style blocks, fetched
\* stylesheets, inline styles
RemainingSources ==
    StyleStrings(page[1].styles)
    \o Concat([i \in 1..Len(sheet_log) |->
                 IF sheet_log[i].status = "ok" THEN <<sheet_log[i].text>> ELSE <<>>], 1)
    \o [i \in 1..Len(page[1].inline) |-> InlineText(page[1].inline[i])]

\* the item of color_data for key h, if any
HasKey(h) == \E i \in 1..Len(color_data) : color_data[i].hex = h
ItemOf(h) == color_data[CHOOSE i \in 1..Len(color_data) : color_data[i].hex = h]

\* 1000 * (0.299 R + 0.587 G + 0.114 B), exactly
BrightnessMilli(h) ==
    299 * hex_to_rgb(h)[1] + 587 * hex_to_rgb(h)[2] + 114 * hex_to_rgb(h)[3]

InBucket(b, h, w) == \E i \in 1..Len(b) : b[i] = [hex |-> h, weight |-> w]

\* C1: when the primary page fetch fails the call ends by raising ConnectionError; no
\* PaletteResult exists and no stylesheet fetch, parsing or classification step has run
C1_PrimaryFailureIsFatal ==
    page_status = "failed" =>
        /\ pc = "raised"
        /\ error = "ConnectionError"
        /\ result = NoResult
        /\ sheet_log = <<>>
        /\ css_texts = <<>>
        /\ color_data = <<>>
        /\ raised_log = <<>>
        /\ buckets = EmptyBuckets
        /\ suggested = <<>>

C1_Witness == page_status = "failed" /\ pc = "raised" /\ error = "ConnectionError"

\* C2: when the primary page fetch succeeds the call never raises, whatever stylesheets
\* fail, and the result returned is the one computed from the remaining sources
C2_StylesheetFailuresNeverAbort ==
    page_status = "ok" =>
        /\ pc # "raised"
        /\ pc = "done" =>
              /\ Returned
              /\ css_texts = RemainingSources
              /\ Suggested = categorize_colors(parse_colors(RemainingSources))
              /\ AllColors \in AllColorsOf(TopColors(parse_colors(RemainingSources), top_n), 1)

\* C3: CSS texts without any accumulation event (the empty list too) give the default
\* palette and an empty all_colors, as a normal return
C3_NoEventsGiveDefaults ==
    (pc = "done" /\ \A i \in 1..Len(css_texts) :
                       /\ StructuredPassOf(css_texts[i]).events = <<>>
                       /\ RegexPassOf(css_texts[i]) = <<>>)
    => /\ error = "none"
       /\ result = <<[suggested |-> [background |-> <<"#","f","f","f","f","f","f">>,
                                     text       |-> <<"#","1","f","2","9","3","7">>,
                                     primary    |-> <<"#","3","b","8","2","f","6">>,
                                     secondary  |-> <<"#","1","0","b","9","8","1">>,
                                     accent     |-> <<"#","f","5","9","e","0","b">>],
                      all_colors |-> <<>>]>>

C3_Witness ==
    /\ pc = "done"
    /\ css_texts = <<CssNoColor, CssNoColor>>
    /\ color_data = <<>>
    /\ AllColors = <<>>

\* C4: every PaletteResult returned has exactly the five roles, each bound to a hex string
C4_FiveRoles ==
    Returned =>
        /\ DOMAIN Suggested = {"background", "text", "primary", "secondary", "accent"}
        /\ \A role \in DOMAIN Suggested : IsHexKey(Suggested[role])

C4_Witness ==
    /\ Returned
    /\ Len(buckets.accent) = 2
    /\ Len(buckets.text) = 0
    /\ Suggested.secondary = buckets.accent[2].hex

\* C5: at every point every key of the AggregateMap, every hex of all_colors and every
\* suggested value is "#" followed by six lowercase hex digits
C5_KeysAreSixDigitHex ==
    /\ \A i \in 1..Len(color_data) : IsHexKey(color_data[i].hex)
    /\ Returned => /\ \A i \in 1..Len(AllColors) : IsHexKey(AllColors[i].hex)
                   /\ \A role \in DOMAIN Suggested : IsHexKey(Suggested[role])

\* a 3-digit upper-case literal and an out-of-range rgb() have become keys
C5_Witness ==
    /\ pc = "done"
    /\ HasKey(<<"#","a","a","b","b","c","c">>)
    /\ "regex" \in ItemOf(<<"#","a","a","b","b","c","c">>).properties
    /\ HasKey(<<"#","f","f","0","0","8","0">>)

NonIncreasingCounts(ac) == \A i \in 1..(Len(ac) - 1) : ac[i].count >= ac[i + 1].count

\* C6 as claimed: for any integer top_n, all_colors has at most top_n entries, in
\* non-increasing order of count
C6_AtMostTopN ==
    Returned => Len(AllColors) <= top_n /\ NonIncreasingCounts(AllColors)

\* C6 amended: at most top_n entries for top_n >= 0, at most max(0, K + top_n) for a
\* negative top_n and a map of K keys; always in non-increasing order of count
C6_AtMostTopNAmended ==
    Returned =>
        /\ top_n >= 0 => Len(AllColors) <= top_n
        /\ top_n < 0 => Len(AllColors) <= Len(color_data) + top_n \/ Len(AllColors) = 0
        /\ NonIncreasingCounts(AllColors)

C6_Witness ==
    /\ Returned
    /\ top_n = 1
    /\ Len(color_data) >= 3
    /\ Len(AllColors) = 1

\* C7: every all_colors entry lists at most 5 tags, distinct members of the color's
\* property set, and all of them when the set has 5 or fewer
C7_PropertiesBounded ==
    Returned =>
        \A i \in 1..Len(AllColors) :
            LET ps == AllColors[i].properties
                S  == ItemOf(AllColors[i].hex).properties
            IN  /\ HasKey(AllColors[i].hex)
                /\ Len(ps) <= 5
                /\ \A j \in 1..Len(ps) : ps[j] \in S
                /\ \A j, k \in 1..Len(ps) : j # k => ps[j] # ps[k]
                /\ Cardinality(S) <= 5 => {ps[j] : j \in 1..Len(ps)} = S

\* an entry whose color has six tags, five of them listed
C7_Witness ==
    /\ Returned
    /\ \E i \in 1..Len(AllColors) :
          /\ Cardinality(ItemOf(AllColors[i].hex).properties) = 6
          /\ Len(AllColors[i].properties) = 5

\* C8 as claimed: Scenario C ends with count 2 and tags {"color", "regex"} for #ff0000
C8_ScenarioCCountTwo ==
    (Parsed /\ css_texts = <<CssScenarioC>>) =>
        color_data = <<[hex |-> <<"#","f","f","0","0","0","0">>, count |-> 2,
                        properties |-> {"color", "regex"}]>>

\* C8 amended: Scenario C ends with count 3 (one structured event, and one regex event
\* for each of the two places the literal is written) and tags {"color", "regex"}
C8_ScenarioCCountThree ==
    (Parsed /\ css_texts = <<CssScenarioC>>) =>
        color_data = <<[hex |-> <<"#","f","f","0","0","0","0">>, count |-> 3,
                        properties |-> {"color", "regex"}]>>

C8_Witness == pc = "done" /\ css_texts = <<CssScenarioC>> /\ Len(color_data) = 1

\* C9: Scenario A gives background #ffffff, text #111111, primary #3366ff, and the
\* defaults for secondary and accent
C9_ScenarioAPalette ==
    (pc = "done" /\ css_texts = <<CssScenarioA>>) =>
        /\ Suggested.background = <<"#","f","f","f","f","f","f">>
        /\ Suggested.text = <<"#","1","1","1","1","1","1">>
        /\ Suggested.primary = <<"#","3","3","6","6","f","f">>
        /\ Suggested.secondary = <<"#","1","0","b","9","8","1">>
        /\ Suggested.accent = <<"#","f","5","9","e","0","b">>
        /\ Len(buckets.accent) = 1

C9_Witness == pc = "done" /\ css_texts = <<CssScenarioA>> /\ Len(color_data) = 3

\* C10: a color of brightness exactly 240 is placed by the property-tag rules (a
\* "background" tag: background bucket; otherwise accent bucket, weight count), and a
\* color of brightness 241 or more is in the background bucket whatever its tags
C10_StrictBackgroundRule ==
    pc \in {"rank", "done"} =>
        \A i \in 1..Len(color_data) :
            LET item == color_data[i] IN
            /\ BrightnessMilli(item.hex) = 240000 =>
                  IF \E p \in item.properties : HasBackground(p)
                  THEN InBucket(buckets.bg, item.hex, item.count)
                  ELSE InBucket(buckets.accent, item.hex, item.count)
            /\ BrightnessMilli(item.hex) >= 241000 =>
                  InBucket(buckets.bg, item.hex, item.count)

\* #f0f0f0 (brightness 240, tag "color") is an accent candidate, #f1f1f1 (241, tag
\* "color") a background candidate
C10_Witness ==
    /\ pc = "done"
    /\ InBucket(buckets.accent, <<"#","f","0","f","0","f","0">>, 1)
    /\ InBucket(buckets.bg, <<"#","f","1","f","1","f","1">>, 1)
    /\ ItemOf(<<"#","f","1","f","1","f","1">>).properties = {"color"}


\* C11: classification is deterministic: when _categorize_colors returns, every run of
\* it on the same AggregateMap returns the same palette, whatever order the property
\* sets iterate in during that run, equal-weight ties inside a bucket included
C11_ClassificationDeterministic ==
    pc = "rank" =>
        \A ords \in IterationOrders(color_data, 1) :
            categorize_colors_iterated(color_data, ords) = suggested[1]

\* a color tagged both "color" and "regex" (the tags point to different buckets), and
\* an equal-weight tie at the head of the accent bucket
C11_Witness ==
    /\ pc = "rank"
    /\ HasKey(<<"#","f","f","0","0","0","0">>)
    /\ ItemOf(<<"#","f","f","0","0","0","0">>).properties = {"color", "regex"}
    /\ Len(buckets.accent) >= 3
    /\ buckets.accent[1].weight = buckets.accent[2].weight
    /\ suggested[1].primary = buckets.accent[1].hex


\* line 147: _parse_colors returns color_data
ParseReturns == pc = "regex" /\ text_i > Len(css_texts)

\* a CSS text with every currentColor token taken out of its declarations' values
WithoutCurrentColor(css_text) ==
    [k \in 1..Len(css_text) |->
        [css_text[k] EXCEPT !.decls =
            [d \in 1..Len(@) |->
                [@[d] EXCEPT !.value =
                    SelectSeq(@, LAMBDA t : ~ (t.type = "ident"
                                               /\ LowerName(t.name) = "currentcolor"))]]]]

\* C12: a currentColor token never causes an accumulation event: the AggregateMap
\* _parse_colors returns is the one it returns for the same CSS texts with every
\* currentColor token absent (same keys, counts and property sets)
C12_CurrentColorIsNoEvent ==
    ParseReturns =>
        color_data = parse_colors([i \in 1..Len(css_texts) |->
                                      WithoutCurrentColor(css_texts[i])])

\* a text whose currentColor stands next to a color literal in one value has been parsed
C12_Witness ==
    /\ ParseReturns
    /\ \E i \in 1..Len(css_texts) :
          /\ css_texts[i] = CssSpellings
          /\ WithoutCurrentColor(css_texts[i]) # css_texts[i]
    /\ HasKey(<<"#","a","a","b","b","c","c">>)
    /\ ItemOf(<<"#","a","a","b","b","c","c">>).count >= 6


\* the accumulation events emitted so far in this call, in order of emission: the
\* structured pass over the texts it has finished, then the regex pass likewise
EventsSoFar ==
    LET ns == IF pc = "structured" THEN text_i - 1
              ELSE IF pc \in {"regex", "rank", "done"} THEN Len(css_texts) ELSE 0
        nr == IF pc = "regex" THEN text_i - 1
              ELSE IF pc \in {"rank", "done"} THEN Len(css_texts) ELSE 0
    IN  Concat([i \in 1..ns |-> StructuredPassOf(css_texts[i]).events], 1)
        \o Concat([i \in 1..nr |-> RegexPassOf(css_texts[i])], 1)

RECURSIVE SumCounts(_, _)
SumCounts(cd, i) == IF i > Len(cd) THEN 0 ELSE cd[i].count + SumCounts(cd, i + 1)

\* C13: at every point, each key's count is the number of events emitted for it (by
\* either pass, over all CSS texts) and its property set the set of their tags; every
\* event's key is in the map, no key is held twice, every count is >= 1, no property
\* set is empty, and the counts add up to the number of events
C13_CountsAreEventCounts ==
    LET ev == EventsSoFar IN
    /\ \A i \in 1..Len(color_data) :
          LET mine == {j \in 1..Len(ev) : ev[j].hex = color_data[i].hex} IN
          /\ color_data[i].count = Cardinality(mine)
          /\ color_data[i].properties = {ev[j].prop : j \in mine}
          /\ color_data[i].count >= 1
          /\ color_data[i].properties # {}
    /\ \A j \in 1..Len(ev) : HasKey(ev[j].hex)
    /\ \A i, k \in 1..Len(color_data) : color_data[i].hex = color_data[k].hex => i = k
    /\ SumCounts(color_data, 1) = Len(ev)

\* a color with more events than tags, fed by both passes and by two CSS texts
C13_Witness ==
    /\ pc = "regex"
    /\ Len(css_texts) = 2
    /\ css_texts[1] # css_texts[2]
    /\ text_i = 2
    /\ \E i \in 1..Len(color_data) :
          /\ color_data[i].count >= 4
          /\ Cardinality(color_data[i].properties) = 2
          /\ "regex" \in color_data[i].properties


\* a color_data as a mapping: its items without their insertion order
ContentOf(cd) == {cd[i] : i \in 1..Len(cd)}

\* C14: aggregation is commutative: two Aggregator runs fed the same multiset of
\* (hex, propertyTag) events, each in its own order and one event at a time, hold the
\* same count and the same property set for every hex key
C14_AggregationCommutes ==
    feeds[1].fed = feeds[2].fed => ContentOf(feeds[1].map) = ContentOf(feeds[2].map)

\* the same three events fed in two orders that create the keys in different order
C14_Witness ==
    /\ feeds[1].fed = feeds[2].fed
    /\ feeds[1].n = 3
    /\ Len(feeds[1].map) = 2
    /\ feeds[1].map # feeds[2].map
    /\ \E i \in 1..2 : feeds[1].map[i].count = 2 /\ Cardinality(feeds[1].map[i].properties) = 2


\* the lists that hold the CSS texts of texts, each once, in any order
PermutationsOf(texts) ==
    {[i \in 1..Len(texts) |-> texts[o[i]]] : o \in Orders(1..Len(texts))}

\* the hex/count sequence of an all_colors list or a top_colors list
HexCounts(seq) == [i \in 1..Len(seq) |-> [hex |-> seq[i].hex, count |-> seq[i].count]]

\* C15: the order of the CSS texts is insignificant downstream: for every permutation
\* of the list the Source Fetcher returned, _parse_colors, _categorize_colors and the
\* top-N ranking yield the suggested palette and the all_colors hex/count sequence
\* that this call returned
C15_TextOrderInsignificant ==
    pc = "done" =>
        \A texts \in PermutationsOf(css_texts) :
            /\ categorize_colors(parse_colors(texts)) = Suggested
            /\ HexCounts(TopColors(parse_colors(texts), top_n)) = HexCounts(AllColors)


\* a hex literal of 3 or 6 digits, and the channels it denotes
IsHexLiteral(chars) == Len(chars) \in {3, 6} /\ \A i \in 1..Len(chars) : IsHexChar(chars[i])
LiteralRgb(chars) ==
    IF Len(chars) = 3 THEN [i \in 1..3 |-> 17 * HexVal(chars[i])]
    ELSE [i \in 1..3 |-> 16 * HexVal(chars[2 * i - 1]) + HexVal(chars[2 * i])]

\* C16: spellings of one color collapse into one entry: for every hex literal of 3 or 6
\* digits written as a value token, the key the structured pass forms (hex -> RGB
\* fractions -> int(channel * 255) -> hex) is the key the regex pass forms, namely the
\* lowercase six-digit key of the literal's channels, and the map holds it once _parse_colors
\* has returned; the map never holds two keys for one color
C16_SpellingsCollapse ==
    /\ \A i, k \in 1..Len(color_data) :
          (i < k) => hex_to_rgb(color_data[i].hex) # hex_to_rgb(color_data[k].hex)
    /\ ParseReturns =>
          \A t \in 1..Len(css_texts) :
              \A tok \in {e.token : e \in {DeclTokens(css_texts[t])[j] :
                                              j \in 1..Len(DeclTokens(css_texts[t]))}} :
                  (tok.type = "hash" /\ IsHexLiteral(tok.chars)) =>
                      LET structured_key == ColorToHex(parse_color(tok))
                          regex_key      == Normalize(HexPatternMatch(tok.chars))
                      IN  /\ structured_key = regex_key
                          /\ IsHexKey(structured_key)
                          /\ hex_to_rgb(structured_key) = LiteralRgb(tok.chars)
                          /\ HasKey(structured_key)

\* #ABC, #aabbcc and #AABBCC have been counted by both passes under the one key #aabbcc
C16_Witness ==
    /\ ParseReturns
    /\ css_texts = <<CssSpellings>>
    /\ color_data = <<[hex |-> <<"#","a","a","b","b","c","c">>, count |-> 6,
                       properties |-> {"color", "regex"}]>>


\* C17: applying an extracted palette writes the five suggested values unchanged into
\* the record of the currently selected site, leaves that record's other fields except
\* site_url and every other site's record alone, saves the record, and removes the
\* pending result from the session state; a failed extraction writes nothing into any
\* configuration record
C17_ApplyWritesSuggested ==
    [][ /\ session_state'.button = "btn_apply_colors" =>
              LET site    == session_state.current_site
                  palette == session_state.extracted_colors[1].suggested
                  record  == saved_configs'[site]
              IN  /\ session_state.extracted_colors # <<>>
                  /\ record.primary_color = palette.primary
                  /\ record.secondary_color = palette.secondary
                  /\ record.accent_color = palette.accent
                  /\ record.background_color = palette.background
                  /\ record.text_color = palette.text
                  /\ record.brand_name = saved_configs[site].brand_name
                  /\ record.danger_color = saved_configs[site].danger_color
                  /\ \A other \in Sites \ {site} : saved_configs'[other] = saved_configs[other]
                  /\ session_state'.site_config = record
                  /\ session_state'.current_site = site
                  /\ session_state'.extracted_colors = <<>>
        /\ session_state'.message = "extract_failed" =>
              /\ saved_configs' = saved_configs
              /\ session_state'.site_config = session_state.site_config
              /\ session_state'.extracted_colors = session_state.extracted_colors
      ]_vars

\* a palette extracted from a page has been applied to one site while the other site's
\* record keeps its defaults, and a later extraction has failed
C17_Witness ==
    /\ session_state.current_site = "site-b"
    /\ session_state.message = "extract_failed"
    /\ saved_configs["site-b"].primary_color = <<"#","3","3","6","6","f","f">>
    /\ saved_configs["site-b"].text_color = <<"#","1","1","1","1","1","1">>
    /\ saved_configs["site-b"].accent_color = <<"#","f","5","9","e","0","b">>
    /\ saved_configs["site-a"].primary_color = <<"#","3","B","8","2","F","6">>
    /\ session_state.extracted_colors = <<>>


\* the hex-literal matches of line 141 in one CSS text, in textual order
MatchesIn(css_text) ==
    SelectSeq([j \in 1..Len(HashWords(css_text)) |-> HexPatternMatch(HashWords(css_text)[j])],
              LAMBDA m : m # <<>>)

RECURSIVE SumLens(_, _)
SumLens(seqs, i) == IF i > Len(seqs) THEN 0 ELSE Len(seqs[i]) + SumLens(seqs, i + 1)

\* C18: both passes run on every CSS text whatever the other's outcome: once the regex
\* loop has passed a text, each hex-literal match of that text has its key in the map,
\* tagged "regex", and has added one to the counts, also when the structured pass
\* raised on that text; the regex loop never ends the call with an exception
C18_RegexPassUnconditional ==
    pc \in {"regex", "rank", "done"} =>
        LET passed == IF pc = "regex" THEN text_i - 1 ELSE Len(css_texts) IN
        /\ error = "none"
        /\ Len(raised_log) = Len(css_texts)
        /\ \A t \in 1..passed :
              \A j \in 1..Len(MatchesIn(css_texts[t])) :
                  LET key == Normalize(MatchesIn(css_texts[t])[j]) IN
                  /\ HasKey(key)
                  /\ "regex" \in ItemOf(key).properties
        /\ SumCounts(color_data, 1) =
              SumLens([t \in 1..Len(css_texts) |-> StructuredPassOf(css_texts[t]).events], 1)
              + SumLens([t \in 1..passed |-> MatchesIn(css_texts[t])], 1)

\* a text whose structured pass raised has been through the regex loop, and a literal
\* the structured pass never reached is in the map with the tag "regex" alone
C18_Witness ==
    /\ ParseReturns
    /\ css_texts = <<CssOverflow>>
    /\ raised_log = <<TRUE>>
    /\ HasKey(<<"#","0","0","f","f","0","0">>)
    /\ ItemOf(<<"#","0","0","f","f","0","0">>).properties = {"regex"}


\* the CSS texts with every text whose structured pass raised replaced by an empty one
WithoutRaisedTexts ==
    [t \in 1..Len(css_texts) |-> IF raised_log[t] THEN <<>> ELSE css_texts[t]]

\* C19: when the structured pass raises on a CSS text, the AggregateMap holds no
\* structured-pass event of that text (those emitted before the exception are not
\* kept) and the structured pass goes on with every later text: the map _parse_colors
\* returns is the one built from the structured events of the texts that did not raise
\* and the regex events of all texts
C19_NoEventOfRaisedText ==
    ParseReturns =>
        /\ Len(raised_log) = Len(css_texts)
        /\ color_data = RegexAll(StructuredAll(<<>>, WithoutRaisedTexts, 1), css_texts, 1)


\* the places (bucket, position) at which key h stands in the three bucket lists
PlacesOf(h) ==
    {pl \in {"bg", "text", "accent"} \X (1..Len(color_data)) :
        /\ pl[2] <= Len(buckets[pl[1]])
        /\ buckets[pl[1]][pl[2]].hex = h}

\* C20: when _categorize_colors returns, every key of the AggregateMap stands in exactly
\* one of the three buckets, exactly once, and the buckets hold nothing else; a color of
\* brightness above 240 is in the background bucket and a color of brightness below 30
\* in the text bucket, each with weight = count, whatever its property tags
C20_OneBucketAndExtremes ==
    pc \in {"rank", "done"} =>
        /\ Len(buckets.bg) + Len(buckets.text) + Len(buckets.accent) = Len(color_data)
        /\ \A i \in 1..Len(color_data) :
              LET item == color_data[i] IN
              /\ Cardinality(PlacesOf(item.hex)) = 1
              /\ BrightnessMilli(item.hex) > 240000 =>
                    InBucket(buckets.bg, item.hex, item.count)
              /\ BrightnessMilli(item.hex) < 30000 =>
                    InBucket(buckets.text, item.hex, item.count)

\* #f1f1f1 (brightness 241) met only under "color" is a background candidate and
\* #0a0a0a (brightness 10) met only under "background-color" a text candidate
C20_Witness ==
    /\ pc = "rank"
    /\ HasKey(<<"#","f","1","f","1","f","1">>)
    /\ ItemOf(<<"#","f","1","f","1","f","1">>).properties = {"color"}
    /\ PlacesOf(<<"#","f","1","f","1","f","1">>) \subseteq {"bg"} \X (1..Len(color_data))
    /\ HasKey(<<"#","0","a","0","a","0","a">>)
    /\ ItemOf(<<"#","0","a","0","a","0","a">>).properties = {"background-color"}
    /\ PlacesOf(<<"#","0","a","0","a","0","a">>) \subseteq {"text"} \X (1..Len(color_data))


\* C21: a color of brightness 30 to 240 is placed by the property rules in fixed order
\* with strict thresholds: a "background" tag sends it to the background bucket with
\* weight count above 200 and otherwise (200 included) to the accent bucket with weight
\* 2 * count, even next to a "color" tag; else a tag that is exactly "color" sends it to
\* the text bucket below 80 and to the accent bucket with weight count from 80 on; else
\* it goes to the accent bucket with weight count
C21_PropertyRulesStrict ==
    pc = "rank" =>
        \A i \in 1..Len(color_data) :
            LET item == color_data[i]
                B    == BrightnessMilli(item.hex)
            IN  (B >= 30000 /\ B <= 240000) =>
                    IF \E p \in item.properties : HasBackground(p)
                    THEN IF B > 200000
                         THEN InBucket(buckets.bg, item.hex, item.count)
                         ELSE InBucket(buckets.accent, item.hex, 2 * item.count)
                    ELSE IF "color" \in item.properties
                    THEN IF B < 80000
                         THEN InBucket(buckets.text, item.hex, item.count)
                         ELSE InBucket(buckets.accent, item.hex, item.count)
                    ELSE InBucket(buckets.accent, item.hex, item.count)


\* an entry of bucket b with hex h whose weight no entry of b exceeds
HeaviestIn(b, h) ==
    \E i \in 1..Len(b) : b[i].hex = h /\ \A j \in 1..Len(b) : b[j].weight <= b[i].weight

\* hs are the hexes of Len(hs) different entries of bucket b, of non-increasing weight,
\* and no other entry of b is heavier than the last of them
HeaviestFew(b, hs) ==
    \E pos \in [1..Len(hs) -> 1..Len(b)] :
        /\ \A k, l \in 1..Len(hs) : k # l => pos[k] # pos[l]
        /\ \A k \in 1..Len(hs) : b[pos[k]].hex = hs[k]
        /\ \A k \in 1..(Len(hs) - 1) : b[pos[k]].weight >= b[pos[k + 1]].weight
        /\ \A j \in 1..Len(b) :
              (\A k \in 1..Len(hs) : pos[k] # j) => b[j].weight <= b[pos[Len(hs)]].weight

\* C22: the roles take the heaviest entries: background and text an entry of maximal
\* weight of their bucket, primary, secondary and accent the three heaviest entries of
\* the accent bucket in descending weight; a role takes its own default exactly when
\* its bucket has too few entries
C22_RolesTakeHeaviest ==
    pc = "rank" =>
        LET s == suggested[1]
            n == Len(buckets.accent)
            roles == <<s.primary, s.secondary, s.accent>>
            defaults == <<DefaultPrimary, DefaultSecondary, DefaultAccent>>
        IN  /\ IF Len(buckets.bg) = 0 THEN s.background = DefaultBackground
               ELSE HeaviestIn(buckets.bg, s.background)
            /\ IF Len(buckets.text) = 0 THEN s.text = DefaultText
               ELSE HeaviestIn(buckets.text, s.text)
            /\ HeaviestFew(buckets.accent, SubSeq(roles, 1, IF n < 3 THEN n ELSE 3))
            /\ \A k \in 1..3 : k > n => roles[k] = defaults[k]

\* an accent bucket of two entries, the lighter one appended first: primary and secondary
\* come from it, heavier first, and accent is its default
C22_Witness ==
    /\ pc = "rank"
    /\ Len(buckets.accent) = 2
    /\ buckets.accent[1].weight > buckets.accent[2].weight
    /\ \E i, j \in 1..Len(color_data) :
          /\ i < j
          /\ color_data[i].hex = buckets.accent[2].hex
          /\ color_data[j].hex = buckets.accent[1].hex
    /\ suggested[1].primary = buckets.accent[1].hex
    /\ suggested[1].secondary = buckets.accent[2].hex
    /\ suggested[1].accent = DefaultAccent


\* the colors one value token stands for: the token's own color if it parses to one
\* (currentColor is none), and, when nested is TRUE, the hex literals among the
\* arguments of a function that is not itself a color
ColorsOfToken(token, nested) ==
    IF parse_color(token).kind = "rgba" THEN <<ColorToHex(parse_color(token))>>
    ELSE IF nested /\ token.type = "function"
    THEN LET lits == SelectSeq(token.inner, IsHexLiteral)
         IN  [i \in 1..Len(lits) |->
                FormatHex(LiteralRgb(lits[i])[1], LiteralRgb(lits[i])[2],
                          LiteralRgb(lits[i])[3])]
    ELSE <<>>

\* the (hex, tag) pairs the declarations of the CSS texts stand for, declaration by
\* declaration: one per color of each value token, tagged with the lowercased name
ColorsDeclared(texts, nested) ==
    Concat([t \in 1..Len(texts) |->
      Concat([k \in 1..Len(texts[t]) |->
        Concat([d \in 1..Len(texts[t][k].decls) |->
          LET decl == texts[t][k].decls[d]
              hexes == Concat([v \in 1..Len(decl.value) |->
                                 ColorsOfToken(decl.value[v], nested)], 1)
          IN  [i \in 1..Len(hexes) |-> [hex |-> hexes[i], prop |-> LowerName(decl.name)]]],
          1)], 1)], 1)

\* when _parse_colors returns without any structured pass having raised: every declared
\* (hex, tag) pair is in the map under its tag, and each key's count is the number of
\* pairs declared for it plus the number of regex matches of it
EventsAre(declared) ==
    (ParseReturns /\ \A t \in 1..Len(raised_log) : ~ raised_log[t]) =>
        LET matches == Concat([t \in 1..Len(css_texts) |-> MatchesIn(css_texts[t])], 1) IN
        /\ \A j \in 1..Len(declared) :
              /\ HasKey(declared[j].hex)
              /\ declared[j].prop \in ItemOf(declared[j].hex).properties
        /\ \A i \in 1..Len(color_data) :
              color_data[i].count =
                  Cardinality({j \in 1..Len(declared) : declared[j].hex = color_data[i].hex})
                  + Cardinality({j \in 1..Len(matches) :
                                   Normalize(matches[j]) = color_data[i].hex})

\* C23: every value token of a declaration is tried, not only the first: a declaration
\* whose value holds k tokens that parse to a color (other than currentColor) emits
\* exactly k events, all tagged with its lowercased property name, the colors that
\* stand as arguments of a function value such as a gradient included
C23_EveryValueTokenTried == EventsAre(ColorsDeclared(css_texts, TRUE))

\* C23 as it holds: every top-level value token of a declaration is tried, not only the
\* first, and a declaration with k top-level tokens that parse to a color (other than
\* currentColor) emits exactly k events under its lowercased property name; the
\* arguments of a function value that is not itself a color (a gradient) are not tried
\* and emit no structured event
C23_EveryTopLevelTokenTried == EventsAre(ColorsDeclared(css_texts, FALSE))

\* a gradient's two literals were counted by the regex pass alone (no "background-image"
\* tag), while both tokens of "Background-Color:rgb(51,102,255) white" were counted
C23_Witness ==
    /\ ParseReturns
    /\ css_texts = <<InlineText(InlineGradient), InlineText(InlineBrand)>>
    /\ raised_log = <<FALSE, FALSE>>
    /\ ItemOf(<<"#","3","3","6","6","f","f">>) =
          [hex |-> <<"#","3","3","6","6","f","f">>, count |-> 2,
           properties |-> {"background-color", "regex"}]
    /\ ItemOf(<<"#","f","f","f","f","f","f">>) =
          [hex |-> <<"#","f","f","f","f","f","f">>, count |-> 2,
           properties |-> {"background-color", "regex"}]


\* the value tokens of all CSS texts that parse to a color, each with its declaration's
\* tag, its key, and for a hex literal its number of digits (0 for a named color or rgb())
ColorTokens ==
    LET toks   == Concat([t \in 1..Len(css_texts) |-> DeclTokens(css_texts[t])], 1)
        parsed == [j \in 1..Len(toks) |-> parse_color(toks[j].token)]
        colors == SelectSeq([j \in 1..Len(toks) |->
                     IF parsed[j].kind = "rgba"
                     THEN [prop |-> toks[j].prop, hex |-> ColorToHex(parsed[j]),
                           digits |-> IF toks[j].token.type = "hash"
                                      THEN Len(toks[j].token.chars) ELSE 0]
                     ELSE [prop |-> toks[j].prop, hex |-> <<>>, digits |-> 0]],
                     LAMBDA c : c.hex # <<>>)
    IN  colors @@ <<>>

\* the keys of the hex-literal matches of the regex, over all CSS texts
MatchKeys ==
    LET matches == Concat([t \in 1..Len(css_texts) |-> MatchesIn(css_texts[t])], 1)
    IN  [j \in 1..Len(matches) |-> Normalize(matches[j])] @@ <<>>

\* what both claims below say of a color written once, once _parse_colors has returned
\* without a structured pass having raised: as a hex literal of one of the given digit
\* counts it has count 2 and the tags {property, "regex"}; as a named color or rgb() it
\* has count 1 and its property as only tag
WrittenOnce(digits) ==
    (ParseReturns /\ \A t \in 1..Len(raised_log) : ~ raised_log[t]) =>
        LET toks == ColorTokens
            keys == MatchKeys
        IN  \A i \in 1..Len(color_data) :
              LET h     == color_data[i].hex
                  mine  == {j \in 1..Len(toks) : toks[j].hex = h}
                  lits  == {j \in mine : toks[j].digits # 0}
                  found == Cardinality({j \in 1..Len(keys) : keys[j] = h})
              IN  /\ (Cardinality(mine) = 1 /\ lits = mine /\ found <= 1
                        /\ \A j \in lits : toks[j].digits \in digits) =>
                         /\ color_data[i].count = 2
                         /\ color_data[i].properties =
                               {toks[j].prop : j \in mine} \cup {"regex"}
                  /\ (Cardinality(mine) = 1 /\ lits = {} /\ found = 0) =>
                         /\ color_data[i].count = 1
                         /\ color_data[i].properties = {toks[j].prop : j \in mine}

\* a color written once as a hex literal with alpha (4 or 8 digits) is counted once
\* under its property alone
AlphaLiteralOnce ==
    (ParseReturns /\ \A t \in 1..Len(raised_log) : ~ raised_log[t]) =>
        LET toks == ColorTokens
            keys == MatchKeys
        IN  \A i \in 1..Len(color_data) :
              LET h    == color_data[i].hex
                  mine == {j \in 1..Len(toks) : toks[j].hex = h}
              IN  (Cardinality(mine) = 1 /\ (\A j \in mine : toks[j].digits \in {4, 8})
                     /\ \A j \in 1..Len(keys) : keys[j] # h) =>
                      /\ color_data[i].count = 1
                      /\ color_data[i].properties = {toks[j].prop : j \in mine}

\* C24: the passes are not deduplicated against each other: a hex literal that occurs
\* once, as a declaration value the structured pass resolves, is counted twice (once
\* under the property name, once under "regex"), while the same color written once as a
\* named color or rgb() is counted once and never gets the tag "regex"
C24_LiteralCountedTwice == WrittenOnce({3, 4, 6, 8})

\* C24 as it holds: the double count is that of the literals of 3 or 6 digits; a literal
\* of 4 or 8 digits (with alpha) is resolved by the structured pass but not matched by
\* the regex, and is counted once, without the tag "regex"
C24_ShortLiteralCountedTwice == WrittenOnce({3, 6}) /\ AlphaLiteralOnce

\* #ABCDEF counted twice, rgb(1,2,3) and black once each, #3366FFCC once
C24_Witness ==
    /\ ParseReturns
    /\ css_texts = <<CssAlpha>>
    /\ color_data =
          <<[hex |-> <<"#","3","3","6","6","f","f">>, count |-> 1, properties |-> {"color"}],
            [hex |-> <<"#","a","b","c","d","e","f">>, count |-> 2,
             properties |-> {"border-color", "regex"}],
            [hex |-> <<"#","0","1","0","2","0","3">>, count |-> 1, properties |-> {"fill"}],
            [hex |-> <<"#","0","0","0","0","0","0">>, count |-> 1, properties |-> {"stroke"}]>>


\* C25: in Scenario A the classification state is: #ffffff in the background bucket
\* with count 1, #111111 in the text bucket, #3366ff in the accent bucket with weight 2
C25_ScenarioABuckets ==
    (pc = "rank" /\ css_texts = <<CssScenarioA>>) =>
        /\ ItemOf(<<"#","f","f","f","f","f","f">>).count = 1
        /\ InBucket(buckets.bg, <<"#","f","f","f","f","f","f">>, 1)
        /\ \E w \in 1..4 : InBucket(buckets.text, <<"#","1","1","1","1","1","1">>, w)
        /\ InBucket(buckets.accent, <<"#","3","3","6","6","f","f">>, 2)

\* C25 as it holds: each of the three literals is counted by both passes, so #ffffff is
\* in the background bucket with count 2, #111111 in the text bucket with weight 2, and
\* #3366ff (count 2) in the accent bucket with weight 4
C25_ScenarioABucketsDoubled ==
    (pc = "rank" /\ css_texts = <<CssScenarioA>>) =>
        /\ \A i \in 1..3 : color_data[i].count = 2
        /\ buckets = [bg     |-> <<[hex |-> <<"#","f","f","f","f","f","f">>, weight |-> 2]>>,
                      text   |-> <<[hex |-> <<"#","1","1","1","1","1","1">>, weight |-> 2]>>,
                      accent |-> <<[hex |-> <<"#","3","3","6","6","f","f">>, weight |-> 4]>>]

\* _categorize_colors has returned for Scenario A
C25_Witness ==
    /\ pc = "rank"
    /\ css_texts = <<CssScenarioA>>
    /\ Len(buckets.bg) = 1 /\ Len(buckets.text) = 1 /\ Len(buckets.accent) = 1


\* C26: the Ranker orders by raw count, never by classifier weight, and selects the true
\* top of the map: for top_n >= 0, all_colors has exactly min(top_n, number of keys)
\* entries, of pairwise distinct keys, each with the full count of its key, in
\* non-increasing order of count, and no key left out has a greater count than a listed
\* one; so a color of greater count comes before a color of greater weight
C26_RankerByCount ==
    (Returned /\ top_n >= 0) =>
        LET ac     == AllColors
            listed == {ac[k].hex : k \in 1..Len(ac)}
        IN  /\ Len(ac) = IF top_n < Len(color_data) THEN top_n ELSE Len(color_data)
            /\ \A k, l \in 1..Len(ac) : ac[k].hex = ac[l].hex => k = l
            /\ \A k \in 1..Len(ac) :
                  /\ HasKey(ac[k].hex)
                  /\ ac[k].count = ItemOf(ac[k].hex).count
            /\ \A k, l \in 1..Len(ac) : k < l => ac[k].count >= ac[l].count
            /\ \A i \in 1..Len(color_data) :
                  color_data[i].hex \notin listed =>
                      \A k \in 1..Len(ac) : color_data[i].count <= ac[k].count

\* #3366ff (background-color, count 2, weight 4) leads the accent bucket, and is listed
\* after #ff0000 (count 3, weight 3)
C26_Witness ==
    /\ Returned
    /\ top_n = 2
    /\ css_texts = <<CssRanked>>
    /\ buckets.accent = <<[hex |-> <<"#","3","3","6","6","f","f">>, weight |-> 4],
                          [hex |-> <<"#","f","f","0","0","0","0">>, weight |-> 3]>>
    /\ Len(AllColors) = 2
    /\ AllColors[1].hex = <<"#","f","f","0","0","0","0">> /\ AllColors[1].count = 3
    /\ AllColors[2].hex = <<"#","3","3","6","6","f","f">> /\ AllColors[2].count = 2


\* C27: classification and ranking leave the AggregateMap as it is: over the step of
\* _categorize_colors and over the step that builds the top-N list, the map keeps its
\* keys and each key its count and its property set; the properties lists of all_colors
\* are lists of their own, cut to five tags, while the map's sets stay whole
C27_MapOnlyRead ==
    [][ (pc \in {"regex", "rank"} /\ pc' \in {"rank", "done"}) =>
            /\ Len(color_data') = Len(color_data)
            /\ ContentOf(color_data') = ContentOf(color_data)
            /\ pc' = "done" =>
                  \A k \in 1..Len(result'[1].all_colors) :
                      LET e == result'[1].all_colors[k] IN
                      \E i \in 1..Len(color_data') :
                          /\ color_data'[i].hex = e.hex
                          /\ color_data'[i].properties = ContentOf(e.properties) \/
                                (Len(e.properties) = PropertiesShown /\
                                 ContentOf(e.properties) \subseteq color_data'[i].properties)
      ]_vars

\* the call has returned a list of five tags for a color whose set in the map still
\* holds six, and a color whose weight differs from its count kept its count
C27_Witness ==
    /\ Returned
    /\ Len(AllColors) = 1
    /\ \E i \in 1..Len(color_data) :
          /\ Cardinality(color_data[i].properties) = 6
          /\ AllColors[1].hex = color_data[i].hex
          /\ Len(AllColors[1].properties) = 5
          /\ InBucket(buckets.accent, color_data[i].hex, 2 * color_data[i].count)


\* C28: the AggregateMap is call-scoped: in every call of a sequence of calls, the list
\* of CSS texts and the map start empty, the map _parse_colors returns is the one of the
\* CSS texts fetched in this call, the palette and the top-N list are those of that map,
\* and no result is held over from an earlier call
C28_MapCallScoped ==
    /\ pc \in {"fetch_page", "styles"} => css_texts = <<>> /\ color_data = <<>>
    /\ (pc = "structured" /\ text_i = 1) => color_data = <<>>
    /\ pc \in {"structured", "regex", "rank", "done"} => css_texts = RemainingSources
    /\ Parsed => color_data = parse_colors(RemainingSources)
    /\ Returned <=> pc = "done"
    /\ pc = "done" =>
          /\ buckets = SortedBuckets(color_data)
          /\ Suggested = SelectRoles(buckets)
          /\ HexCounts(AllColors) = HexCounts(TopColors(color_data, top_n))

\* a second call has returned the map of Scenario C, count 3, whatever the first call
\* had fetched
C28_Witness ==
    /\ calls = 2
    /\ Returned
    /\ css_texts = <<CssScenarioC>>
    /\ color_data = <<[hex |-> <<"#","f","f","0","0","0","0">>, count |-> 3,
                       properties |-> {"color", "regex"}]>>


\* C29: for every AggregateMap, the suggested background has a brightness above 200 and
\* the suggested text a brightness below 80, bucket winners and defaults alike, and
\* every primary, secondary or accent taken from the accent bucket has a brightness of
\* 30 to 240
C29_SuggestedBrightness ==
    pc = "rank" =>
        LET s     == suggested[1]
            roles == <<s.primary, s.secondary, s.accent>>
        IN  /\ BrightnessMilli(s.background) > 200000
            /\ BrightnessMilli(s.text) < 80000
            /\ \A k \in 1..3 :
                  k <= Len(buckets.accent) =>
                      /\ BrightnessMilli(roles[k]) >= 30000
                      /\ BrightnessMilli(roles[k]) <= 240000


\* the five roles and the documented default of each
Roles == {"background", "text", "primary", "secondary", "accent"}
DefaultOf ==
    [background |-> DefaultBackground, text |-> DefaultText, primary |-> DefaultPrimary,
     secondary |-> DefaultSecondary, accent |-> DefaultAccent]

\* C30: every suggested value is the default of its role or a key of the AggregateMap,
\* and no key is selected from the buckets for more than one role: two roles hold the
\* same hex only when at least one of them holds its default
C30_RolesDistinct ==
    pc = "rank" =>
        LET s == suggested[1] IN
        /\ \A r \in Roles : s[r] = DefaultOf[r] \/ HasKey(s[r])
        /\ \A r1, r2 \in Roles :
              (r1 # r2 /\ s[r1] = s[r2]) => (s[r1] = DefaultOf[r1] \/ s[r2] = DefaultOf[r2])

\* #1f2937 met under "background-color" is primary, taken from the accent bucket, and
\* text holds the same hex as its default, the text bucket being empty
C30_Witness ==
    /\ pc = "rank"
    /\ HasKey(DefaultText)
    /\ buckets.text = <<>>
    /\ buckets.accent = <<[hex |-> DefaultText, weight |-> 2]>>
    /\ suggested[1].primary = suggested[1].text

====
